---- MODULE Spec2Model ----
(***************************************************************************)
(* The write path of the storage engine: the varint/fixed codec            *)
(* (util/coding.cc), the arena, the write batch, the log writer and the    *)
(* memtable (the translation units collected in util/arena.h).             *)
(*                                                                         *)
(* A byte string (std::string, Slice) is a sequence of numbers 0..255.     *)
(* A pointer into a buffer is a 1-based index into the sequence.           *)
(***************************************************************************)
EXTENDS Integers, Sequences, FiniteSets, TLC

VARIABLES
  mem,        \* the MemTable: table_ (ordered set), arena_ (allocation state)
  added,      \* history: the arguments of every MemTable::Add call so far
  getCall,    \* the last MemTable::Get call: its arguments and what it returned
  iter,       \* the MemTableIterator: its position and what it has returned
  batch,      \* the two WriteBatch objects "a" and "b": rep_
  ops,        \* history: the Put/Delete calls that built each batch
  call,       \* the last WriteBatch call: its name and what it returned
  log,        \* the log::Writer: block_offset_, and dest_ (the sink)
  rec         \* the AddRecord call in progress: its locals, and its history

vars == <<mem, added, getCall, iter, batch, ops, call, log, rec>>

memVars == <<mem, added, getCall, iter>>
batchVars == <<batch, ops, call>>
logVars == <<log, rec>>

\* ------------------------------------------------------------------------
\* Bounds of the model
\* ------------------------------------------------------------------------

\* the most entries a memtable holds
MaxEntries == 3

\* the most records a write batch holds
MaxOps == 2

\* the most AddRecord calls on a log writer
MaxRecords == 2

\* the most pieces the contents given to a batch are made of
MaxPieces == 2

\* the most entries added while readers run
MaxAdds == 2

\* the most continuation bytes at the head of a buffer given to a decoder
MaxCont == 10

\* the most varints put into one string
MaxVarints == 2

\* the most allocations made from an arena
MaxAllocs == 3

\* ------------------------------------------------------------------------
\* Byte strings
\* ------------------------------------------------------------------------

RECURSIVE Concat(_)
\* the concatenation of a sequence of byte strings
Concat(ss) == IF ss = <<>> THEN <<>> ELSE Head(ss) \o Concat(Tail(ss))

\* Slice::remove_prefix(n)
RemovePrefix(s, n) == SubSeq(s, n + 1, Len(s))

\* the first n bytes: Slice(data, n)
Prefix(s, n) == SubSeq(s, 1, n)

\* ------------------------------------------------------------------------
\* util/coding: fixed-width and varint encoding
\* ------------------------------------------------------------------------

\* the continuation bit of a varint byte
B == 128

\* the low 8 bits of x | B, as stored into a uint8_t
OrB(x) == (x % B) + B

\* the low 8 bits of x, as stored into a uint8_t
U8(x) == x % 256

RECURSIVE EncodeFixed(_, _)
\* n bytes of v, least significant first (EncodeFixed32: n = 4, EncodeFixed64: n = 8)
EncodeFixed(v, n) ==
  IF n = 0 THEN <<>> ELSE <<v % 256>> \o EncodeFixed(v \div 256, n - 1)

EncodeFixed32(v) == EncodeFixed(v, 4)

EncodeFixed64(v) == EncodeFixed(v, 8)

RECURSIVE DecodeFixed(_)
\* the number whose little-endian bytes are b
DecodeFixed(b) ==
  IF b = <<>> THEN 0 ELSE Head(b) + 256 * DecodeFixed(Tail(b))

\* DecodeFixed32(ptr), ptr the 1-based index p of buf
DecodeFixed32(buf, p) == DecodeFixed(SubSeq(buf, p, p + 3))

\* DecodeFixed64(ptr), ptr the 1-based index p of buf
DecodeFixed64(buf, p) == DecodeFixed(SubSeq(buf, p, p + 7))

\* the bytes EncodeVarint32 writes at dst
EncodeVarint32(v) ==
  IF v < 2^7 THEN <<U8(v)>>
  ELSE IF v < 2^14 THEN <<OrB(v), U8(v \div 2^7)>>
  ELSE IF v < 2^21 THEN <<OrB(v), OrB(v \div 2^7), U8(v \div 2^14)>>
  ELSE IF v < 2^28 THEN
    <<OrB(v), OrB(v \div 2^7), OrB(v \div 2^14), U8(v \div 2^21)>>
  ELSE
    <<OrB(v), OrB(v \div 2^7), OrB(v \div 2^14), OrB(v \div 2^21),
      U8(v \div 2^28)>>

\* PutVarint32(dst, v): dst with the varint of v appended
PutVarint32(dst, v) == dst \o EncodeVarint32(v)

\* PutLengthPrefixedSlice(dst, value)
PutLengthPrefixedSlice(dst, value) == PutVarint32(dst, Len(value)) \o value

RECURSIVE VarintLength(_)
VarintLength(v) == IF v >= 128 THEN 1 + VarintLength(v \div 128) ELSE 1

\* byte << shift in uint32_t arithmetic, for a byte below 256: the bits
\* from bit 32 on are lost
Shl32(byte, shift) ==
  IF shift <= 24 THEN byte * 2^shift ELSE (byte % 2^(32 - shift)) * 2^shift

RECURSIVE GetVarint32LoopShort(_, _, _, _, _)
\* the loop of GetVarint32PtrFallback giving up after four bytes
GetVarint32LoopShort(buf, p, limit, shift, result) ==
  IF shift <= 21 /\ p < limit THEN
    LET byte == buf[p] IN
    IF byte >= 128 THEN
      GetVarint32LoopShort(buf, p + 1, limit, shift + 7,
                           result + Shl32(byte % 128, shift))
    ELSE
      [p |-> p + 1, value |-> result + Shl32(byte, shift)]
  ELSE [p |-> 0, value |-> 0]

RECURSIVE GetVarint32Loop(_, _, _, _, _)
\* the for loop of GetVarint32PtrFallback. The groups of 7 bits do not
\* overlap, so |= is an addition.
GetVarint32Loop(buf, p, limit, shift, result) ==
  IF shift <= 28 /\ p < limit THEN
    LET byte == buf[p] IN
    IF byte >= 128 THEN
      GetVarint32Loop(buf, p + 1, limit, shift + 7,
                      result + Shl32(byte % 128, shift))
    ELSE
      [p |-> p + 1, value |-> result + Shl32(byte, shift)]
  ELSE [p |-> 0, value |-> 0]

\* GetVarint32PtrFallback(p, limit, value): p = 0 is nullptr
GetVarint32PtrFallback(buf, p, limit) == GetVarint32Loop(buf, p, limit, 0, 0)

\* GetVarint32Ptr(p, limit, value): one byte below 128 is decoded in place
GetVarint32Ptr(buf, p, limit) ==
  IF p < limit /\ buf[p] < 128 THEN [p |-> p + 1, value |-> buf[p]]
  ELSE GetVarint32PtrFallback(buf, p, limit)

\* a uint64_t is the set of its bits that are 1, bit 0 the least
\* significant: the bits of a byte
BitsOf(byte) == {i \in 0..7 : (byte \div 2^i) % 2 = 1}

\* word << shift in uint64_t arithmetic: the bits from bit 64 on are lost
Shl64(word, shift) == {i + shift : i \in word} \cap (0..63)

RECURSIVE GetVarint64LoopNoLimit(_, _, _, _, _)
\* the loop of GetVarint64Ptr reading on to the end of the buffer
GetVarint64LoopNoLimit(buf, p, limit, shift, result) ==
  IF shift <= 63 /\ p <= Len(buf) THEN
    LET byte == buf[p] IN
    IF byte >= 128 THEN
      GetVarint64LoopNoLimit(buf, p + 1, limit, shift + 7,
                             result \cup Shl64(BitsOf(byte % 128), shift))
    ELSE
      [p |-> p + 1, value |-> result \cup Shl64(BitsOf(byte), shift)]
  ELSE [p |-> 0, value |-> {}]

RECURSIVE GetVarint64Loop(_, _, _, _, _)
\* the for loop of GetVarint64Ptr; |= is the union of the bits
GetVarint64Loop(buf, p, limit, shift, result) ==
  IF shift <= 63 /\ p < limit THEN
    LET byte == buf[p] IN
    IF byte >= 128 THEN
      GetVarint64Loop(buf, p + 1, limit, shift + 7,
                      result \cup Shl64(BitsOf(byte % 128), shift))
    ELSE
      [p |-> p + 1, value |-> result \cup Shl64(BitsOf(byte), shift)]
  ELSE [p |-> 0, value |-> {}]

\* GetVarint64Ptr(p, limit, value): p = 0 is nullptr
GetVarint64Ptr(buf, p, limit) == GetVarint64Loop(buf, p, limit, 0, {})

\* GetVarint32(input, value): input is left alone when it fails
GetVarint32(input) ==
  LET q == GetVarint32Ptr(input, 1, Len(input) + 1) IN
  IF q.p = 0 THEN [ok |-> FALSE, value |-> 0, input |-> input]
  ELSE [ok |-> TRUE, value |-> q.value, input |-> RemovePrefix(input, q.p - 1)]

\* GetLengthPrefixedSlice(Slice* input, Slice* result)
GetLengthPrefixedSlice(input) ==
  LET v == GetVarint32(input) IN
  IF v.ok /\ Len(v.input) >= v.value THEN
    [ok |-> TRUE, result |-> Prefix(v.input, v.value),
     input |-> RemovePrefix(v.input, v.value)]
  ELSE [ok |-> FALSE, result |-> <<>>, input |-> v.input]

\* ------------------------------------------------------------------------
\* Arena
\* ------------------------------------------------------------------------

\* the size of a standard arena block
kBlockSize == 4096

\* sizeof(char*)
PointerSize == 8

\* a pointer into arena memory: byte off of block blk of blocks_; nullptr
\* is block 0
NullPtr == [blk |-> 0, off |-> 0]

\* Arena::Arena()
ArenaInit ==
  [alloc_ptr_ |-> NullPtr, alloc_bytes_remaining_ |-> 0, blocks_ |-> <<>>,
   memory_usage_ |-> 0]

\* AllocateNewBlock that counts the block's bytes only
AllocateNewBlockNoPointer(a, block_bytes) ==
  [arena |-> [a EXCEPT !.blocks_ = Append(@, block_bytes),
                       !.memory_usage_ = @ + block_bytes],
   result |-> [blk |-> Len(a.blocks_) + 1, off |-> 0]]

\* Arena::AllocateNewBlock(block_bytes): blocks_ keeps each block's size
AllocateNewBlock(a, block_bytes) ==
  [arena |-> [a EXCEPT !.blocks_ = Append(@, block_bytes),
                       !.memory_usage_ = @ + block_bytes + PointerSize],
   result |-> [blk |-> Len(a.blocks_) + 1, off |-> 0]]

\* AllocateFallback that gives a block of its own only to requests of more
\* than half a block
AllocateFallbackHalf(a, bytes) ==
  IF bytes > kBlockSize \div 2 THEN AllocateNewBlock(a, bytes)
  ELSE
    LET nb == AllocateNewBlock(a, kBlockSize) IN
    [arena |-> [nb.arena EXCEPT
                  !.alloc_ptr_ = [nb.result EXCEPT !.off = @ + bytes],
                  !.alloc_bytes_remaining_ = kBlockSize - bytes],
     result |-> nb.result]

\* Arena::AllocateFallback(bytes)
AllocateFallback(a, bytes) ==
  IF bytes > kBlockSize \div 4 THEN AllocateNewBlock(a, bytes)
  ELSE
    LET nb == AllocateNewBlock(a, kBlockSize) IN
    [arena |-> [nb.arena EXCEPT
                  !.alloc_ptr_ = [nb.result EXCEPT !.off = @ + bytes],
                  !.alloc_bytes_remaining_ = kBlockSize - bytes],
     result |-> nb.result]

\* Allocate that takes the bytes off alloc_bytes_remaining_ and leaves
\* alloc_ptr_ where it was
AllocateNoAdvance(a, bytes) ==
  IF bytes <= a.alloc_bytes_remaining_ THEN
    [arena |-> [a EXCEPT !.alloc_bytes_remaining_ = @ - bytes],
     result |-> a.alloc_ptr_]
  ELSE AllocateFallback(a, bytes)

\* Arena::Allocate(bytes), for bytes > 0
Allocate(a, bytes) ==
  IF bytes <= a.alloc_bytes_remaining_ THEN
    [arena |-> [a EXCEPT !.alloc_ptr_.off = @ + bytes,
                         !.alloc_bytes_remaining_ = @ - bytes],
     result |-> a.alloc_ptr_]
  ELSE AllocateFallback(a, bytes)

\* align in AllocateAligned: (sizeof(void*) > 8) ? sizeof(void*) : 8
Align == IF PointerSize > 8 THEN PointerSize ELSE 8

\* reinterpret_cast<uintptr_t>(ptr) & (align - 1): the first byte of a
\* block is aligned, and nullptr is 0
AddressMod(ptr) == ptr.off % Align

\* AllocateAligned that skips current_mod bytes instead of the rest of the
\* aligned unit
AllocateAlignedWrongSlop(a, bytes) ==
  LET slop == AddressMod(a.alloc_ptr_)
      needed == bytes + slop
  IN
  IF needed <= a.alloc_bytes_remaining_ THEN
    [arena |-> [a EXCEPT !.alloc_ptr_.off = @ + needed,
                         !.alloc_bytes_remaining_ = @ - needed],
     result |-> [a.alloc_ptr_ EXCEPT !.off = @ + slop]]
  ELSE AllocateFallback(a, bytes)

\* Arena::AllocateAligned(bytes)
AllocateAligned(a, bytes) ==
  LET current_mod == AddressMod(a.alloc_ptr_)
      slop == IF current_mod = 0 THEN 0 ELSE Align - current_mod
      needed == bytes + slop
  IN
  IF needed <= a.alloc_bytes_remaining_ THEN
    [arena |-> [a EXCEPT !.alloc_ptr_.off = @ + needed,
                         !.alloc_bytes_remaining_ = @ - needed],
     result |-> [a.alloc_ptr_ EXCEPT !.off = @ + slop]]
  ELSE AllocateFallback(a, bytes)

\* ------------------------------------------------------------------------
\* db/dbformat: internal keys
\* ------------------------------------------------------------------------

kTypeDeletion == 0

kTypeValue == 1

\* the type a lookup key carries: the greatest, so that a seek lands on
\* the first entry of the user key with a sequence <= the snapshot
kValueTypeForSeek == kTypeValue

\* (seq << 8) | t
PackSequenceAndType(seq, t) == seq * 256 + t

RECURSIVE BytewiseCompare(_, _)
\* the user comparator: bytewise order, < 0, 0 or > 0
BytewiseCompare(a, b) ==
  IF a = <<>> \/ b = <<>> THEN Len(a) - Len(b)
  ELSE IF Head(a) # Head(b) THEN Head(a) - Head(b)
  ELSE BytewiseCompare(Tail(a), Tail(b))

\* ExtractUserKey(internal_key)
ExtractUserKey(ikey) == Prefix(ikey, Len(ikey) - 8)

\* the tag of an internal key: its last 8 bytes
ExtractTag(ikey) == DecodeFixed64(ikey, Len(ikey) - 7)

\* InternalKeyComparator::Compare: increasing user key, then decreasing tag
InternalKeyCompare(a, b) ==
  LET r == BytewiseCompare(ExtractUserKey(a), ExtractUserKey(b)) IN
  IF r # 0 THEN r
  ELSE IF ExtractTag(a) > ExtractTag(b) THEN -1
  ELSE IF ExtractTag(a) < ExtractTag(b) THEN 1
  ELSE 0

\* LookupKey(user_key, sequence): memtable_key() and user_key()
LookupKey(user_key, sequence) ==
  [memtable_key |->
     EncodeVarint32(Len(user_key) + 8) \o user_key
       \o EncodeFixed64(PackSequenceAndType(sequence, kValueTypeForSeek)),
   user_key |-> user_key]

\* ------------------------------------------------------------------------
\* MemTable
\* ------------------------------------------------------------------------

\* GetLengthPrefixedSlice(const char* data), data the index p of buf: the
\* slice's first index and its length
MemGetLengthPrefixedSlice(buf, p) ==
  LET q == GetVarint32Ptr(buf, p, p + 5) IN [data |-> q.p, size |-> q.value]

\* the bytes of a slice of buf
SliceBytes(buf, sl) == SubSeq(buf, sl.data, sl.data + sl.size - 1)

\* the comparator with its arguments taken in the other order
KeyComparatorSwapped(aptr, bptr) ==
  InternalKeyCompare(SliceBytes(bptr, MemGetLengthPrefixedSlice(bptr, 1)),
                     SliceBytes(aptr, MemGetLengthPrefixedSlice(aptr, 1)))

\* MemTable::KeyComparator::operator()(aptr, bptr): the entries at aptr, bptr
KeyComparator(aptr, bptr) ==
  InternalKeyCompare(SliceBytes(aptr, MemGetLengthPrefixedSlice(aptr, 1)),
                     SliceBytes(bptr, MemGetLengthPrefixedSlice(bptr, 1)))

\* the ordered set's Insert(key): table is the keys in increasing order
SkipListInsert(table, key) ==
  LET n == Cardinality({i \in 1..Len(table) : KeyComparator(table[i], key) < 0})
  IN SubSeq(table, 1, n) \o <<key>> \o SubSeq(table, n + 1, Len(table))

\* the ordered set's Iterator::Seek(target): the first key >= target, 0 if none
SkipListSeek(table, target) ==
  LET ge == {i \in 1..Len(table) : KeyComparator(table[i], target) >= 0} IN
  IF ge = {} THEN 0 ELSE CHOOSE i \in ge : \A j \in ge : i <= j

\* MemTable::MemTable(comparator)
MemTableInit == [table_ |-> <<>>, arena_ |-> ArenaInit]

\* the bytes MemTable::Add writes at buf
EntryBytes(s, type, key, value) ==
  LET internal_key_size == Len(key) + 8 IN
  EncodeVarint32(internal_key_size) \o key
    \o EncodeFixed64(PackSequenceAndType(s, type))
    \o EncodeVarint32(Len(value)) \o value

\* MemTable::Add(s, type, key, value). An entry of table_ is the bytes at
\* the pointer inserted: Add writes them once, before the insertion.
MemTableAdd(m, s, type, key, value) ==
  LET key_size == Len(key)
      val_size == Len(value)
      internal_key_size == key_size + 8
      encoded_len == VarintLength(internal_key_size) + internal_key_size
                       + VarintLength(val_size) + val_size
      buf == Allocate(m.arena_, encoded_len)
  IN [table_ |-> SkipListInsert(m.table_, EntryBytes(s, type, key, value)),
      arena_ |-> buf.arena]

\* MemTable::Get without the comparison of the user key: the entry the
\* seek lands on is taken as an entry of the key looked up
MemTableGetAnyKey(m, key) ==
  LET i == SkipListSeek(m.table_, key.memtable_key)
      miss == [ret |-> FALSE, value |-> <<>>, s |-> "OK"]
  IN
  IF i = 0 THEN miss
  ELSE
    LET entry == m.table_[i]
        kl == GetVarint32Ptr(entry, 1, 6)
        tag == DecodeFixed64(entry, kl.p + kl.value - 8)
    IN
    IF tag % 256 = kTypeValue THEN
      [ret |-> TRUE,
       value |-> SliceBytes(entry,
                   MemGetLengthPrefixedSlice(entry, kl.p + kl.value)),
       s |-> "OK"]
    ELSE IF tag % 256 = kTypeDeletion THEN
      [ret |-> TRUE, value |-> <<>>, s |-> "NotFound"]
    ELSE miss

\* MemTable::Get(key, value, s): what it returns, and *value and *s after
\* the call, for *value empty and *s OK before it
MemTableGet(m, key) ==
  LET i == SkipListSeek(m.table_, key.memtable_key)
      miss == [ret |-> FALSE, value |-> <<>>, s |-> "OK"]
  IN
  IF i = 0 THEN miss
  ELSE
    LET entry == m.table_[i]
        kl == GetVarint32Ptr(entry, 1, 6)
        key_ptr == kl.p
        key_length == kl.value
    IN
    IF BytewiseCompare(SubSeq(entry, key_ptr, key_ptr + key_length - 8 - 1),
                       key.user_key) = 0
    THEN
      LET tag == DecodeFixed64(entry, key_ptr + key_length - 8) IN
      IF tag % 256 = kTypeValue THEN
        [ret |-> TRUE,
         value |-> SliceBytes(entry,
                     MemGetLengthPrefixedSlice(entry, key_ptr + key_length)),
         s |-> "OK"]
      ELSE IF tag % 256 = kTypeDeletion THEN
        [ret |-> TRUE, value |-> <<>>, s |-> "NotFound"]
      ELSE miss
    ELSE miss

\* MemTableIterator::key(), at the entry at position pos of table_
IterKey(m, pos) ==
  SliceBytes(m.table_[pos], MemGetLengthPrefixedSlice(m.table_[pos], 1))

\* MemTableIterator::value(), at the entry at position pos of table_
IterValue(m, pos) ==
  LET entry == m.table_[pos]
      key_slice == MemGetLengthPrefixedSlice(entry, 1)
  IN SliceBytes(entry,
       MemGetLengthPrefixedSlice(entry, key_slice.data + key_slice.size))

\* ------------------------------------------------------------------------
\* The memtable's operations
\* ------------------------------------------------------------------------

\* a value of 130 bytes: its length takes a varint of two bytes
LongValue == [i \in 1..130 |-> 118]

\* the user keys of the model, "a" and "ab", and the values, "" and LongValue
Keys == {<<97>>, <<97, 98>>}

Values == {<<>>, LongValue}

\* the sequence numbers of the entries, and the snapshots of the lookups
SeqNums == {1, 2, 3}

Snapshots == {0} \cup SeqNums

NoCall == [op |-> "none"]

\* no iterator: pos = 0 is an iterator that is not Valid()
NoIter == [started |-> FALSE, pos |-> 0, visited |-> <<>>]

InitMem ==
  /\ mem = MemTableInit
  /\ added = {}
  /\ getCall = NoCall
  /\ iter = NoIter

\* mem_->Add(s, type, key, value), with a sequence number that this user
\* key does not have yet, while no iterator is positioned on an entry. A
\* deletion carries the empty value (MemTableInserter::Delete).
MemAdd(s, type, key, value) ==
  /\ Len(mem.table_) < MaxEntries
  /\ iter.pos = 0
  /\ \A e \in added : ~(e.key = key /\ e.seq = s)
  /\ type = kTypeDeletion => value = <<>>
  /\ mem' = MemTableAdd(mem, s, type, key, value)
  /\ added' = added \cup {[seq |-> s, type |-> type, key |-> key, value |-> value]}
  /\ getCall' = NoCall
  /\ iter' = NoIter

\* mem_->Get(LookupKey(key, snapshot), &value, &s)
MemGet(key, snapshot) ==
  /\ getCall' = [op |-> "Get", key |-> key, snapshot |-> snapshot,
                 result |-> MemTableGet(mem, LookupKey(key, snapshot))]
  /\ UNCHANGED <<mem, added, iter>>

\* what the caller reads at a valid position: key() and value()
IterRead(m, pos) ==
  IF pos = 0 THEN <<>>
  ELSE <<[key |-> IterKey(m, pos), value |-> IterValue(m, pos)]>>

\* the ordered set's Iterator::SeekToFirst()
SkipListSeekToFirst(table) == IF table = <<>> THEN 0 ELSE 1

\* the ordered set's Iterator::Next(), from a valid position
SkipListNext(table, pos) == IF pos < Len(table) THEN pos + 1 ELSE 0

\* MemTableIterator::SeekToFirst(), then key() and value() if Valid()
IterSeekToFirst ==
  /\ LET pos == SkipListSeekToFirst(mem.table_) IN
       iter' = [started |-> TRUE, pos |-> pos, visited |-> IterRead(mem, pos)]
  /\ UNCHANGED <<mem, added, getCall>>

\* MemTableIterator::Next() on a Valid() iterator, then key() and value()
\* if Valid()
IterNext ==
  /\ iter.pos # 0
  /\ LET pos == SkipListNext(mem.table_, iter.pos) IN
       iter' = [iter EXCEPT !.pos = pos,
                            !.visited = @ \o IterRead(mem, pos)]
  /\ UNCHANGED <<mem, added, getCall>>

\* ------------------------------------------------------------------------
\* WriteBatch
\* ------------------------------------------------------------------------

\* the size of the header of rep_: an 8-byte sequence number and a 4-byte count
kHeader == 12

OK == [code |-> "OK", msg |-> ""]

Corruption(msg) == [code |-> "Corruption", msg |-> msg]

\* rep_ after WriteBatch::Clear(): clear(), then resize(kHeader)
WriteBatchClear == [i \in 1..kHeader |-> 0]

\* WriteBatchInternal::Count(b): the fixed32 at rep_[8]
Count(rep) == DecodeFixed32(rep, 9)

\* WriteBatchInternal::SetCount(b, n)
SetCount(rep, n) == Prefix(rep, 8) \o EncodeFixed32(n) \o RemovePrefix(rep, 12)

\* WriteBatchInternal::Sequence(b): the fixed64 at rep_[0]
Sequence(rep) == DecodeFixed64(rep, 1)

\* WriteBatchInternal::SetSequence(b, seq)
SetSequence(rep, seq) == EncodeFixed64(seq) \o RemovePrefix(rep, 8)

\* Put without the increment of the count of the header
WriteBatchPutNoCount(rep, key, value) ==
  PutLengthPrefixedSlice(
    PutLengthPrefixedSlice(Append(rep, kTypeValue), key), value)

\* WriteBatch::Put(key, value)
WriteBatchPut(rep, key, value) ==
  PutLengthPrefixedSlice(
    PutLengthPrefixedSlice(
      Append(SetCount(rep, Count(rep) + 1), kTypeValue), key), value)

\* WriteBatch::Delete(key)
WriteBatchDelete(rep, key) ==
  PutLengthPrefixedSlice(
    Append(SetCount(rep, Count(rep) + 1), kTypeDeletion), key)

\* Append that does not skip the header of src
WriteBatchAppendWithHeader(dst, src) ==
  SetCount(dst, Count(dst) + Count(src)) \o src

\* WriteBatchInternal::Append(dst, src), for src of kHeader bytes or more
WriteBatchAppend(dst, src) ==
  SetCount(dst, Count(dst) + Count(src)) \o RemovePrefix(src, kHeader)

\* WriteBatchInternal::SetContents(b, contents), for contents of kHeader
\* bytes or more
SetContents(rep, contents) == contents

\* a call of the handler: handler->Put(key, value) or handler->Delete(key)
HandlerPut(key, value) == [op |-> "Put", key |-> key, value |-> value]

HandlerDelete(key) == [op |-> "Delete", key |-> key, value |-> <<>>]

RECURSIVE IterateLoop(_, _, _)
\* the while loop of WriteBatch::Iterate: the calls of the handler it has
\* made, and the status it returns (the count is compared after the loop)
IterateLoop(input, found, calls) ==
  IF input = <<>> THEN [status |-> OK, found |-> found, calls |-> calls]
  ELSE
    LET tag == input[1]
        rest == RemovePrefix(input, 1)
    IN
    IF tag = kTypeValue THEN
      LET key == GetLengthPrefixedSlice(rest)
          value == GetLengthPrefixedSlice(key.input)
      IN
      IF key.ok /\ value.ok THEN
        IterateLoop(value.input, found + 1,
                    Append(calls, HandlerPut(key.result, value.result)))
      ELSE [status |-> Corruption("bad WriteBatch Put"),
            found |-> found + 1, calls |-> calls]
    ELSE IF tag = kTypeDeletion THEN
      LET key == GetLengthPrefixedSlice(rest) IN
      IF key.ok THEN
        IterateLoop(key.input, found + 1,
                    Append(calls, HandlerDelete(key.result)))
      ELSE [status |-> Corruption("bad WriteBatch Delete"),
            found |-> found + 1, calls |-> calls]
    ELSE [status |-> Corruption("unknown WriteBatch tag"),
          found |-> found + 1, calls |-> calls]

\* Iterate without the comparison of found and the count of the header
IterateNoCount(rep) ==
  IF Len(rep) < kHeader THEN
    [status |-> Corruption("malformed WriteBatch (too small)"), calls |-> <<>>]
  ELSE
    LET r == IterateLoop(RemovePrefix(rep, kHeader), 0, <<>>) IN
    [status |-> r.status, calls |-> r.calls]

\* Iterate that reads the whole batch before it calls the handler, and
\* calls it for no record of a batch it finds corrupt
IterateAllOrNothing(rep) ==
  IF Len(rep) < kHeader THEN
    [status |-> Corruption("malformed WriteBatch (too small)"), calls |-> <<>>]
  ELSE
    LET r == IterateLoop(RemovePrefix(rep, kHeader), 0, <<>>) IN
    IF r.status # OK THEN [status |-> r.status, calls |-> <<>>]
    ELSE IF r.found # Count(rep) THEN
      [status |-> Corruption("WriteBatch has wrong count"), calls |-> <<>>]
    ELSE [status |-> OK, calls |-> r.calls]

\* WriteBatch::Iterate(handler): the status it returns and the calls of the
\* handler it makes, in order. The handler returns nothing to Iterate.
Iterate(rep) ==
  IF Len(rep) < kHeader THEN
    [status |-> Corruption("malformed WriteBatch (too small)"), calls |-> <<>>]
  ELSE
    LET r == IterateLoop(RemovePrefix(rep, kHeader), 0, <<>>) IN
    IF r.status # OK THEN [status |-> r.status, calls |-> r.calls]
    ELSE IF r.found # Count(rep) THEN
      [status |-> Corruption("WriteBatch has wrong count"), calls |-> r.calls]
    ELSE [status |-> OK, calls |-> r.calls]

\* Put of the inserter without the increment of sequence_
InserterPutSameSequence(h, key, value) ==
  [sequence_ |-> h.sequence_,
   mem_ |-> MemTableAdd(h.mem_, h.sequence_, kTypeValue, key, value),
   adds |-> Append(h.adds, [seq |-> h.sequence_, type |-> kTypeValue,
                            key |-> key, value |-> value])]

\* MemTableInserter::Put(key, value); adds is the history of the Add calls
InserterPut(h, key, value) ==
  [sequence_ |-> h.sequence_ + 1,
   mem_ |-> MemTableAdd(h.mem_, h.sequence_, kTypeValue, key, value),
   adds |-> Append(h.adds, [seq |-> h.sequence_, type |-> kTypeValue,
                            key |-> key, value |-> value])]

\* MemTableInserter::Delete(key)
InserterDelete(h, key) ==
  [sequence_ |-> h.sequence_ + 1,
   mem_ |-> MemTableAdd(h.mem_, h.sequence_, kTypeDeletion, key, <<>>),
   adds |-> Append(h.adds, [seq |-> h.sequence_, type |-> kTypeDeletion,
                            key |-> key, value |-> <<>>])]

RECURSIVE Dispatch(_, _)
\* the handler after the calls Iterate makes, in order
Dispatch(h, calls) ==
  IF calls = <<>> THEN h
  ELSE LET c == Head(calls) IN
       Dispatch(IF c.op = "Put" THEN InserterPut(h, c.key, c.value)
                ELSE InserterDelete(h, c.key),
                Tail(calls))

\* the MemTableInserter that InsertInto makes
NewInserter(rep, memtable) ==
  [sequence_ |-> Sequence(rep), mem_ |-> memtable, adds |-> <<>>]

\* what InsertInto returns, and the memtable it leaves, from what Iterate
\* returns and the inserter after its calls
InsertIntoResult(status, h) ==
  [status |-> status, mem |-> h.mem_, adds |-> h.adds]

\* b->Iterate(&inserter), it being what Iterate does on rep
IterateInserter(rep, memtable, it) ==
  InsertIntoResult(it.status, Dispatch(NewInserter(rep, memtable), it.calls))

\* WriteBatchInternal::InsertInto(b, memtable)
InsertInto(rep, memtable) == IterateInserter(rep, memtable, Iterate(rep))

\* ------------------------------------------------------------------------
\* The write batch's operations
\* ------------------------------------------------------------------------

\* the arguments of Put and of Delete in the model: a one-byte key with
\* the empty value and a two-byte key with a value of 130 bytes; the empty
\* key and a one-byte key
PutArgs == {<<<<97>>, <<>>>>, <<<<97, 98>>, LongValue>>}

DeleteArgs == {<<>>, <<97>>}

\* the base sequence number given to a batch (a new batch has 0)
BatchSeqs == {3}

\* the entries a memtable holds before a batch is inserted into it: none,
\* or two entries of the keys "a" and "ab" with smaller sequence numbers
PreEntries ==
  {<<>>,
   <<[seq |-> 1, type |-> kTypeValue, key |-> <<97>>, value |-> <<118>>],
     [seq |-> 2, type |-> kTypeDeletion, key |-> <<97, 98>>, value |-> <<>>]>>}

\* bytes that are no record, appended to a batch to damage it: an unknown
\* tag; a Put whose value is missing; a Delete whose key is cut short; a
\* Put whose key length never ends
JunkTails == {<<2>>, <<1, 1, 97>>, <<0, 5, 97>>, <<1, 128>>}

InitBatch ==
  /\ batch = [x \in {"a", "b"} |-> WriteBatchClear]
  /\ ops = [x \in {"a", "b"} |-> [recs |-> <<>>, intact |-> TRUE]]
  /\ call = NoCall

\* batch x .Put(key, value); ops keeps the records put into an intact batch
BatchPut(x, key, value) ==
  /\ ops[x].intact
  /\ Len(ops[x].recs) < MaxOps
  /\ batch' = [batch EXCEPT ![x] = WriteBatchPut(@, key, value)]
  /\ ops' = [ops EXCEPT ![x].recs = Append(@, HandlerPut(key, value))]
  /\ call' = [op |-> "Put", x |-> x]

\* batch x .Delete(key)
BatchDelete(x, key) ==
  /\ ops[x].intact
  /\ Len(ops[x].recs) < MaxOps
  /\ batch' = [batch EXCEPT ![x] = WriteBatchDelete(@, key)]
  /\ ops' = [ops EXCEPT ![x].recs = Append(@, HandlerDelete(key))]
  /\ call' = [op |-> "Delete", x |-> x]

\* batch x .Clear()
BatchClear(x) ==
  /\ batch' = [batch EXCEPT ![x] = WriteBatchClear]
  /\ ops' = [ops EXCEPT ![x] = [recs |-> <<>>, intact |-> TRUE]]
  /\ call' = [op |-> "Clear", x |-> x]

\* WriteBatchInternal::SetSequence(batch x, seq)
BatchSetSequence(x, seq) ==
  /\ ops[x].intact
  /\ batch' = [batch EXCEPT ![x] = SetSequence(@, seq)]
  /\ call' = [op |-> "SetSequence", x |-> x]
  /\ UNCHANGED ops

\* batch dst .Append(batch src), two intact batches; the call keeps the
\* batches as they were before it
BatchAppend(dst, src) ==
  /\ dst # src
  /\ ops[dst].intact /\ ops[src].intact
  /\ Len(ops[dst].recs) + Len(ops[src].recs) <= MaxOps
  /\ Len(batch[src]) >= kHeader
  /\ batch' = [batch EXCEPT ![dst] = WriteBatchAppend(@, batch[src])]
  /\ ops' = [ops EXCEPT ![dst].recs = @ \o ops[src].recs]
  /\ call' = [op |-> "Append", dst |-> dst, src |-> src, before |-> batch]

\* batch x .Iterate(handler), with a handler that records its calls
BatchIterate(x) ==
  /\ LET it == Iterate(batch[x]) IN
       call' = [op |-> "Iterate", x |-> x, status |-> it.status,
                calls |-> it.calls]
  /\ UNCHANGED <<batch, ops>>

\* the ways the model damages the contents of an intact batch: junk after
\* its records, its last byte cut off, or a count that is one too many or
\* one too few. recs is the records that precede the damage.
Damaged(rep, recs) ==
  {[contents |-> rep \o t, recs |-> recs] : t \in JunkTails}
    \cup {[contents |-> Prefix(rep, Len(rep) - 1),
           recs |-> SubSeq(recs, 1, Len(recs) - 1)] : i \in {1} \cap 1..Len(recs)}
    \cup {[contents |-> SetCount(rep, Count(rep) + 1), recs |-> recs]}
    \cup {[contents |-> SetCount(rep, Count(rep) - 1), recs |-> recs] :
            i \in {1} \cap 1..Len(recs)}

\* WriteBatchInternal::SetContents(batch x, contents), with the contents of
\* batch x damaged
BatchSetContents(x, d) ==
  /\ ops[x].intact
  /\ d \in Damaged(batch[x], ops[x].recs)
  /\ Len(d.contents) >= kHeader
  /\ batch' = [batch EXCEPT ![x] = SetContents(@, d.contents)]
  /\ ops' = [ops EXCEPT ![x] = [recs |-> d.recs, intact |-> FALSE]]
  /\ call' = [op |-> "SetContents", x |-> x]

RECURSIVE AddAll(_, _)
\* the memtable after the Add calls es, in order
AddAll(m, es) ==
  IF es = <<>> THEN m
  ELSE AddAll(MemTableAdd(m, Head(es).seq, Head(es).type, Head(es).key,
                          Head(es).value), Tail(es))

\* WriteBatchInternal::InsertInto(batch x, mem), for a batch whose sequence
\* numbers follow those of the memtable's entries; the call keeps the
\* batch and the memtable's entries as they were before it
BatchInsertInto(x) ==
  /\ Len(batch[x]) >= kHeader
  /\ \A e \in added : e.seq < Sequence(batch[x])
  /\ \E r \in {InsertInto(batch[x], mem)} :
       /\ mem' = r.mem
       /\ added' = added \cup {r.adds[i] : i \in 1..Len(r.adds)}
       /\ call' = [op |-> "InsertInto", x |-> x, status |-> r.status,
                   adds |-> r.adds, before |-> mem.table_, rep |-> batch[x]]
  /\ UNCHANGED <<batch, ops, getCall, iter>>

\* ------------------------------------------------------------------------
\* log::Writer
\* ------------------------------------------------------------------------

\* log::kBlockSize, the size of a block of the log
kLogBlockSize == 32768

\* the size of a fragment's header: checksum (4 bytes), length (2), type (1)
kHeaderSize == 7

kZeroType == 0

kFullType == 1

kFirstType == 2

kMiddleType == 3

kLastType == 4

IOError == [code |-> "IOError", msg |-> ""]

\* The sink dest_ is the sequence of the slices it has accepted; its bytes
\* are their concatenation. A slice is kept by what it holds:
\*   zero: n zero bytes (the trailer of a block)
\*   hdr:  the 7 bytes of a header: the checksum, the two bytes of the
\*         length and the type
\*   data: the n bytes of payload number rec from its byte number from on
\*   old:  the n bytes the file held when the writer was made
ZeroSlice(n) == [k |-> "zero", n |-> n]

OldSlice(n) == [k |-> "old", n |-> n]

DataSlice(id, ptr, length) == [k |-> "data", n |-> length, rec |-> id, from |-> ptr]

\* the number of bytes of a slice
SliceSize(sl) == IF sl.k = "hdr" THEN kHeaderSize ELSE sl.n

RECURSIVE SinkSize(_)
\* the number of bytes of the sink
SinkSize(dest) ==
  IF dest = <<>> THEN 0 ELSE SliceSize(Head(dest)) + SinkSize(Tail(dest))

\* dest_->Append(slice): a sink that fails accepts none of the bytes
SinkAppend(dest, slice, ok) == IF ok THEN Append(dest, slice) ELSE dest

\* crc32c::Mask(crc32c::Extend(type_crc_[t], ptr, length)): the checksum of
\* the type and of the payload bytes, kept as what it covers
MaskedCrc(t, id, ptr, length) == [type |-> t, rec |-> id, from |-> ptr, n |-> length]

\* the header with the two bytes of the length in the other order
FormatHeaderSwapped(t, id, ptr, length) ==
  [k |-> "hdr", crc |-> MaskedCrc(t, id, ptr, length),
   lo |-> U8(length \div 256), hi |-> length % 256, type |-> t]

\* the 7 bytes EmitPhysicalRecord formats in buf
FormatHeader(t, id, ptr, length) ==
  [k |-> "hdr", crc |-> MaskedCrc(t, id, ptr, length),
   lo |-> length % 256, hi |-> U8(length \div 256), type |-> t]

\* Writer::Writer(dest): a writer on an empty file
WriterInit == [block_offset_ |-> 0, dest_ |-> <<>>]

\* the writer on a file with block_offset_ set to the length of the file
WriterInitAtNoModulo(dest_length) ==
  [block_offset_ |-> dest_length, dest_ |-> <<OldSlice(dest_length)>>]

\* Writer::Writer(dest, dest_length): a writer on a file of dest_length bytes
WriterInitAt(dest_length) ==
  [block_offset_ |-> dest_length % kLogBlockSize,
   dest_ |-> <<OldSlice(dest_length)>>]

\* EmitPhysicalRecord that leaves block_offset_ where it was
EmitPhysicalRecordNoAdvance(w, t, id, ptr, length, fail) ==
  LET buf == FormatHeader(t, id, ptr, length)
      d1 == SinkAppend(w.dest_, buf, fail # "header")
      d2 == IF fail # "header"
              THEN SinkAppend(d1, DataSlice(id, ptr, length), fail # "payload")
              ELSE d1
  IN [w |-> [block_offset_ |-> w.block_offset_, dest_ |-> d2],
      s |-> IF fail = "none" THEN OK ELSE IOError]

\* EmitPhysicalRecord that advances block_offset_ by the payload alone
EmitPhysicalRecordPayloadOnly(w, t, id, ptr, length, fail) ==
  LET buf == FormatHeader(t, id, ptr, length)
      d1 == SinkAppend(w.dest_, buf, fail # "header")
      d2 == IF fail # "header"
              THEN SinkAppend(d1, DataSlice(id, ptr, length), fail # "payload")
              ELSE d1
  IN [w |-> [block_offset_ |-> w.block_offset_ + length, dest_ |-> d2],
      s |-> IF fail = "none" THEN OK ELSE IOError]

\* Writer::EmitPhysicalRecord(t, ptr, length), ptr the byte number ptr of
\* payload number id. fail names the sink call that fails: "header",
\* "payload", "flush" or "none".
EmitPhysicalRecord(w, t, id, ptr, length, fail) ==
  LET buf == FormatHeader(t, id, ptr, length)
      d1 == SinkAppend(w.dest_, buf, fail # "header")
      d2 == IF fail # "header"
              THEN SinkAppend(d1, DataSlice(id, ptr, length), fail # "payload")
              ELSE d1
  IN [w |-> [block_offset_ |-> w.block_offset_ + kHeaderSize + length,
             dest_ |-> d2],
      s |-> IF fail = "none" THEN OK ELSE IOError]

\* avail without the room of the header
AvailNoHeader(block_offset) == kLogBlockSize - block_offset

\* avail in AddRecord: the payload bytes the block can still take
Avail(block_offset) == kLogBlockSize - block_offset - kHeaderSize

\* fragment_length with the comparison the other way round
FragmentLengthGreater(left, avail) == IF left > avail THEN left ELSE avail

\* fragment_length in AddRecord
FragmentLength(left, avail) == IF left < avail THEN left ELSE avail

\* type without the case of a fragment that is both the first and the last
FragmentTypeNoFull(begin, end) ==
  IF begin THEN kFirstType
  ELSE IF end THEN kLastType
  ELSE kMiddleType

\* type in AddRecord
FragmentType(begin, end) ==
  IF begin /\ end THEN kFullType
  ELSE IF begin THEN kFirstType
  ELSE IF end THEN kLastType
  ELSE kMiddleType

\* leftover in AddRecord: the bytes left in the block
Leftover(block_offset) == kLogBlockSize - block_offset

\* the trailer AddRecord fills the block with: leftover bytes when they
\* cannot hold a header, 0 when it appends none
TrailerSize(leftover) ==
  IF leftover < kHeaderSize /\ leftover > 0 THEN leftover ELSE 0

\* the switch with a test that is off by one: a tail of kHeaderSize - 1
\* bytes is taken to hold a header
SwitchBlockOffByOne(w, padOk) ==
  IF Leftover(w.block_offset_) < kHeaderSize - 1 THEN
    [block_offset_ |-> 0,
     dest_ |-> IF Leftover(w.block_offset_) > 0
                 THEN SinkAppend(w.dest_,
                        ZeroSlice(TrailerSize(Leftover(w.block_offset_))), padOk)
                 ELSE w.dest_]
  ELSE w

\* the switch to a new block in AddRecord. padOk tells whether the sink
\* accepts the trailer; its status is not looked at.
SwitchBlock(w, padOk) ==
  IF Leftover(w.block_offset_) < kHeaderSize THEN
    [block_offset_ |-> 0,
     dest_ |-> IF Leftover(w.block_offset_) > 0
                 THEN SinkAppend(w.dest_,
                        ZeroSlice(TrailerSize(Leftover(w.block_offset_))), padOk)
                 ELSE w.dest_]
  ELSE w

\* the rest of a pass of the loop of AddRecord, on the writer w1 after the
\* switch: the fragment is cut, typed and emitted. frag is the history of
\* the pass.
AddRecordEmit(w, w1, r, padOk, fail) ==
  LET fragment_length == FragmentLength(r.left, Avail(w1.block_offset_))
      end == (r.left = fragment_length)
      type == FragmentType(r.begin, end)
      e == EmitPhysicalRecord(w1, type, r.id, r.ptr, fragment_length, fail)
  IN [w |-> e.w,
      r |-> [r EXCEPT !.ptr = @ + fragment_length,
                      !.left = @ - fragment_length,
                      !.begin = FALSE,
                      !.s = e.s],
      frag |-> [type |-> type, length |-> fragment_length,
                leftover |-> Leftover(w.block_offset_),
                pad |-> TrailerSize(Leftover(w.block_offset_)),
                padOk |-> padOk,
                offset |-> w1.block_offset_,
                pos |-> SinkSize(w1.dest_), fail |-> fail]]

\* One pass of the do-while loop of Writer::AddRecord, with the locals r
\* (left, ptr, begin) of the call for payload number r.id
AddRecordPass(w, r, padOk, fail) ==
  AddRecordEmit(w, SwitchBlock(w, padOk), r, padOk, fail)

\* ------------------------------------------------------------------------
\* The log writer's operations
\* ------------------------------------------------------------------------

\* the lengths of the payloads: empty; one byte; one that leaves 3 bytes of
\* an empty block; one that fills an empty block to its last byte; two
\* that take two and three blocks
PayloadSizes == {0, 1, 32758, 32761, 40000, 70000}

\* the lengths of the files a writer is made on: in the middle of a block;
\* 7 bytes before the end of a block; 6 bytes before the end of the second
\* block
DestLengths == {100, 32761, 65530}

\* no AddRecord call is running
IdleRec ==
  [pc |-> "idle", id |-> 0, size |-> 0, left |-> 0, ptr |-> 0,
   begin |-> FALSE, s |-> OK, frags |-> <<>>, done |-> <<>>,
   sinkFailed |-> FALSE]

\* a writer made on an empty file or on a file of one of DestLengths
InitWriter ==
  /\ log \in {WriterInit} \cup {WriterInitAt(n) : n \in DestLengths}
  /\ rec = IdleRec

\* the writer's variables where the log is not used
LogUnused ==
  /\ log = WriterInit
  /\ rec = IdleRec

\* AddRecord(slice) is called with a payload of n bytes: the locals before
\* the loop
AddRecordBegin(n) ==
  /\ rec.pc = "idle"
  /\ Len(rec.done) < MaxRecords
  /\ rec' = [rec EXCEPT !.pc = "loop", !.id = Len(rec.done) + 1, !.size = n,
                        !.left = n, !.ptr = 0, !.begin = TRUE, !.s = OK,
                        !.frags = <<>>]
  /\ UNCHANGED log

\* one pass of the loop of AddRecord, then its test: the call goes on, or
\* returns s
AddRecordStep(padOk, fail) ==
  /\ rec.pc = "loop"
  /\ LET p == AddRecordPass(log, rec, padOk, fail)
         goOn == p.r.s = OK /\ p.r.left > 0
     IN
     /\ p.frag.pad = 0 => padOk
     /\ log' = p.w
     /\ rec' = [p.r EXCEPT
                  !.pc = IF goOn THEN "loop" ELSE "idle",
                  !.frags = Append(@, p.frag),
                  !.done = IF goOn THEN @
                           ELSE Append(@, [size |-> rec.size, s |-> p.r.s]),
                  !.sinkFailed = @ \/ ~padOk \/ fail # "none"]

\* ------------------------------------------------------------------------
\* The specifications
\* ------------------------------------------------------------------------

\* an empty memtable, two empty batches and a writer on an empty file
Init == InitMem /\ InitBatch /\ LogUnused

\* the memtable: entries are added and looked up
NextMem ==
  \/ \E s \in SeqNums, type \in {kTypeDeletion, kTypeValue},
        key \in Keys, value \in Values :
       MemAdd(s, type, key, value) /\ UNCHANGED <<batchVars, logVars>>
  \/ \E key \in Keys, snapshot \in Snapshots :
       MemGet(key, snapshot) /\ UNCHANGED <<batchVars, logVars>>

SpecMem == Init /\ [][NextMem]_vars

\* the memtable: entries are added and iterated over
NextIter ==
  \/ \E s \in SeqNums, type \in {kTypeDeletion, kTypeValue},
        key \in Keys, value \in Values :
       MemAdd(s, type, key, value) /\ UNCHANGED <<batchVars, logVars>>
  \/ IterSeekToFirst /\ UNCHANGED <<batchVars, logVars>>
  \/ IterNext /\ UNCHANGED <<batchVars, logVars>>

SpecIter == Init /\ [][NextIter]_vars

\* two write batches: they are built, appended to each other and iterated
NextBatch ==
  \/ \E x \in {"a", "b"}, kv \in PutArgs :
       BatchPut(x, kv[1], kv[2]) /\ UNCHANGED <<memVars, logVars>>
  \/ \E x \in {"a", "b"}, key \in DeleteArgs :
       BatchDelete(x, key) /\ UNCHANGED <<memVars, logVars>>
  \/ \E x \in {"a", "b"} : BatchClear(x) /\ UNCHANGED <<memVars, logVars>>
  \/ \E x \in {"a", "b"}, seq \in BatchSeqs :
       BatchSetSequence(x, seq) /\ UNCHANGED <<memVars, logVars>>
  \/ \E dst \in {"a", "b"}, src \in {"a", "b"} :
       BatchAppend(dst, src) /\ UNCHANGED <<memVars, logVars>>
  \/ \E x \in {"a", "b"} : BatchIterate(x) /\ UNCHANGED <<memVars, logVars>>

SpecBatch == Init /\ [][NextBatch]_vars

\* a memtable that holds some older entries, two empty batches and a
\* writer on an empty file
InitInsert ==
  /\ \E pre \in PreEntries :
       /\ mem = AddAll(MemTableInit, pre)
       /\ added = {pre[i] : i \in 1..Len(pre)}
  /\ getCall = NoCall
  /\ iter = NoIter
  /\ InitBatch
  /\ LogUnused

\* the batch has not been inserted yet: the model follows one batch up to
\* its insertion into the memtable
NotInserted == call.op # "InsertInto"

\* one write batch: it is built, perhaps damaged, iterated, and inserted
\* into a memtable
NextInsert ==
  \/ \E kv \in PutArgs :
       NotInserted /\ BatchPut("a", kv[1], kv[2])
         /\ UNCHANGED <<memVars, logVars>>
  \/ \E key \in DeleteArgs :
       NotInserted /\ BatchDelete("a", key) /\ UNCHANGED <<memVars, logVars>>
  \/ NotInserted /\ BatchClear("a") /\ UNCHANGED <<memVars, logVars>>
  \/ \E seq \in BatchSeqs :
       NotInserted /\ BatchSetSequence("a", seq)
         /\ UNCHANGED <<memVars, logVars>>
  \/ \E d \in Damaged(batch["a"], ops["a"].recs) :
       NotInserted /\ BatchSetContents("a", d)
         /\ UNCHANGED <<memVars, logVars>>
  \/ NotInserted /\ BatchIterate("a") /\ UNCHANGED <<memVars, logVars>>
  \/ NotInserted /\ BatchInsertInto("a") /\ UNCHANGED logVars

SpecInsert == InitInsert /\ [][NextInsert]_vars

\* an empty memtable, two empty batches and a writer on some file
InitLog == InitMem /\ InitBatch /\ InitWriter

\* the log writer: records are added, and the sink may fail
NextLog ==
  \/ \E n \in PayloadSizes :
       AddRecordBegin(n) /\ UNCHANGED <<memVars, batchVars>>
  \/ \E padOk \in BOOLEAN, fail \in {"none", "header", "payload", "flush"} :
       AddRecordStep(padOk, fail) /\ UNCHANGED <<memVars, batchVars>>

SpecLog == InitLog /\ [][NextLog]_vars

\* a pass of the loop of AddRecord on a sink that takes everything
LogStepOk == AddRecordStep(TRUE, "none") /\ UNCHANGED <<memVars, batchVars>>

\* the log writer on a sink that never fails
NextLogLive ==
  \/ \E n \in PayloadSizes :
       AddRecordBegin(n) /\ UNCHANGED <<memVars, batchVars>>
  \/ LogStepOk

\* a call of AddRecord that is in its loop goes on running: the sink does
\* not block
SpecLogLive == InitLog /\ [][NextLogLive]_vars /\ WF_vars(LogStepOk)

\* ------------------------------------------------------------------------
\* A batch of any contents
\* ------------------------------------------------------------------------

\* the pieces of the contents given to a batch: Put("a", ""); Put("ab",
\* LongValue); Delete("a"); a Delete whose key length 0 takes two bytes; an
\* unknown tag; a Put without its value; a Delete with a key length of 5
\* and one byte; a Put whose key length has no last byte; a Delete whose
\* key length has six bytes
Pieces ==
  {<<1, 1, 97, 0>>, <<1, 2, 97, 98, 130, 1>> \o LongValue, <<0, 1, 97>>,
   <<0, 128, 0>>, <<2>>, <<1, 1, 97>>, <<0, 5, 97>>, <<1, 128>>,
   <<0, 128, 128, 128, 128, 128, 0>>}

RECURSIVE Bodies(_)
\* the bodies made of n pieces at most
Bodies(n) ==
  IF n = 0 THEN {<<>>}
  ELSE Bodies(n - 1) \cup {b \o q : b \in Bodies(n - 1), q \in Pieces}

\* the contents given to a batch: a header with the sequence number 0 and
\* any count up to one more than the number of pieces, and a body
RawContents ==
  {EncodeFixed64(0) \o EncodeFixed32(n) \o b :
     n \in 0..(MaxPieces + 1), b \in Bodies(MaxPieces)}

\* WriteBatchInternal::SetContents(batch x, contents), with any contents of
\* kHeader bytes or more, on a batch that was given none yet
BatchSetRawContents(x, contents) ==
  /\ ops[x].intact
  /\ Len(contents) >= kHeader
  /\ batch' = [batch EXCEPT ![x] = SetContents(@, contents)]
  /\ ops' = [ops EXCEPT ![x] = [recs |-> <<>>, intact |-> FALSE]]
  /\ call' = [op |-> "SetContents", x |-> x]

\* an empty memtable, two empty batches and a writer on an empty file
InitParse == InitMem /\ InitBatch /\ LogUnused

\* a batch is given contents and iterated
NextParse ==
  \/ \E contents \in RawContents :
       BatchSetRawContents("a", contents) /\ UNCHANGED <<memVars, logVars>>
  \/ BatchIterate("a") /\ UNCHANGED <<memVars, logVars>>

SpecParse == InitParse /\ [][NextParse]_vars

\* ------------------------------------------------------------------------
\* The arena's operations
\* ------------------------------------------------------------------------

\* the sizes asked of the arena: small ones, aligned or not; a quarter of
\* a block and one byte more; most of a block; more than a block
AllocSizes == {1, 5, 8, 1000, 1024, 1025, 3100, 5000}

\* no allocation made yet
NoAlloc == [op |-> "none", n |-> 0, regions |-> <<>>]

\* a call without the call before it
Forget(c) == IF c.op = "none" THEN [op |-> "none"]
             ELSE [op |-> c.op, bytes |-> c.bytes, result |-> c.result,
                   before |-> c.before]

\* the call op(bytes) that took the arena from before to r.arena and
\* returned r.result, the number of calls so far, the call before it and
\* the regions returned so far
AllocCall(op, bytes, r) ==
  [op |-> op, bytes |-> bytes, result |-> r.result, before |-> mem.arena_,
   n |-> call.n + 1, prev |-> Forget(call),
   regions |-> Append(call.regions, [ptr |-> r.result, n |-> bytes])]

\* arena_.Allocate(bytes)
ArenaAllocate(bytes) ==
  /\ call.n < MaxAllocs
  /\ \E r \in {Allocate(mem.arena_, bytes)} :
       /\ mem' = [mem EXCEPT !.arena_ = r.arena]
       /\ call' = AllocCall("Allocate", bytes, r)
  /\ UNCHANGED <<added, getCall, iter, batch, ops>>

\* arena_.AllocateAligned(bytes)
ArenaAllocateAligned(bytes) ==
  /\ call.n < MaxAllocs
  /\ \E r \in {AllocateAligned(mem.arena_, bytes)} :
       /\ mem' = [mem EXCEPT !.arena_ = r.arena]
       /\ call' = AllocCall("AllocateAligned", bytes, r)
  /\ UNCHANGED <<added, getCall, iter, batch, ops>>

\* a new arena
InitArena ==
  /\ InitMem
  /\ batch = [x \in {"a", "b"} |-> WriteBatchClear]
  /\ ops = [x \in {"a", "b"} |-> [recs |-> <<>>, intact |-> TRUE]]
  /\ call = NoAlloc
  /\ LogUnused

\* allocations from the arena
NextArena ==
  \/ \E bytes \in AllocSizes : ArenaAllocate(bytes) /\ UNCHANGED logVars
  \/ \E bytes \in AllocSizes : ArenaAllocateAligned(bytes) /\ UNCHANGED logVars

SpecArena == InitArena /\ [][NextArena]_vars

\* ------------------------------------------------------------------------
\* Varints put into a string and taken from it
\* ------------------------------------------------------------------------

\* the values encoded: the least and the greatest of each encoded length,
\* up to the greatest integer of the model, 2^31 - 1
VarintValues ==
  {0, 1, 127, 128, 300, 16383, 16384, 2097151, 2097152, 268435455,
   268435456, 2147483647}

\* an empty string, nothing put into it
NoVarint == [op |-> "none", dst |-> <<>>, pending |-> <<>>, n |-> 0]

\* PutVarint32(&dst, v); pending are the values put and not yet taken
VarintPut(v) ==
  /\ call.n < MaxVarints
  /\ call' = [op |-> "PutVarint32", v |-> v, before |-> call.dst,
               dst |-> PutVarint32(call.dst, v),
               pending |-> Append(call.pending, v), n |-> call.n + 1]
  /\ UNCHANGED <<mem, added, getCall, iter, batch, ops>>

\* GetVarint32(&input, &value), input being the string
VarintGet ==
  /\ \E r \in {GetVarint32(call.dst)} :
       call' = [op |-> "GetVarint32", ok |-> r.ok, value |-> r.value,
                before |-> call.dst, dst |-> r.input,
                expect |-> call.pending,
                pending |-> IF r.ok /\ call.pending # <<>>
                            THEN Tail(call.pending) ELSE call.pending,
                n |-> call.n]
  /\ UNCHANGED <<mem, added, getCall, iter, batch, ops>>

\* an empty string
InitVarint ==
  /\ InitMem
  /\ batch = [x \in {"a", "b"} |-> WriteBatchClear]
  /\ ops = [x \in {"a", "b"} |-> [recs |-> <<>>, intact |-> TRUE]]
  /\ call = NoVarint
  /\ LogUnused

NextVarint ==
  \/ \E v \in VarintValues : VarintPut(v) /\ UNCHANGED logVars
  \/ VarintGet /\ UNCHANGED logVars

SpecVarint == InitVarint /\ [][NextVarint]_vars

\* ------------------------------------------------------------------------
\* A writer and readers of one memtable
\* ------------------------------------------------------------------------
\* Here table_ holds the pointers inserted, and mem.data_ the bytes of the
\* arena's memory, by address. Add runs statement by statement; a Get, or
\* a step of an iterator, runs between any two of its statements.

\* the addresses of the n bytes at ptr
Region(ptr, n) == {[blk |-> ptr.blk, off |-> ptr.off + k] : k \in 0..(n - 1)}

\* the memory after bytes are written at ptr
MemWrite(data, ptr, bytes) ==
  [a \in Region(ptr, Len(bytes)) |-> bytes[a.off - ptr.off + 1]] @@ data

\* the memory after new char[] or Allocate handed out n bytes at ptr that
\* nobody wrote yet: they hold anything, here fill
MemFresh(data, ptr, n, fill) == data @@ [a \in Region(ptr, n) |-> fill]

\* the bytes a reader finds from ptr on
MemBytes(data, ptr) ==
  [k \in 1..Cardinality({a \in DOMAIN data :
                           a.blk = ptr.blk /\ a.off >= ptr.off}) |->
     data[[blk |-> ptr.blk, off |-> ptr.off + k - 1]]]

\* the memtable as its readers find it: every pointer of table_ followed
Deref(m) ==
  [table_ |-> [i \in 1..Len(m.table_) |-> MemBytes(m.data_, m.table_[i])],
   arena_ |-> m.arena_]

\* table_.Insert(buf): the pointer goes where the comparator puts the
\* entry it points to
TableInsert(m, buf) ==
  LET n == Cardinality({i \in 1..Len(m.table_) :
             KeyComparator(MemBytes(m.data_, m.table_[i]),
                           MemBytes(m.data_, buf)) < 0})
  IN SubSeq(m.table_, 1, n) \o <<buf>> \o SubSeq(m.table_, n + 1, Len(m.table_))

\* encoded_len of MemTable::Add
EncodedLen(key, value) ==
  VarintLength(Len(key) + 8) + Len(key) + 8 + VarintLength(Len(value))
    + Len(value)

\* Add with the insertion moved before the value is written
AddStepsInsertEarly == <<"klen", "key", "tag", "insert", "vlen", "value">>

\* the statements of MemTable::Add after the allocation, in program order
AddSteps == <<"klen", "key", "tag", "vlen", "value", "insert">>

\* the bytes a statement of Add writes at p
StepBytes(c) ==
  CASE AddSteps[c.pc] = "klen" -> EncodeVarint32(Len(c.key) + 8)
    [] AddSteps[c.pc] = "key" -> c.key
    [] AddSteps[c.pc] = "tag" -> EncodeFixed64(PackSequenceAndType(c.s, c.type))
    [] AddSteps[c.pc] = "vlen" -> EncodeVarint32(Len(c.value))
    [] AddSteps[c.pc] = "value" -> c.value
    [] OTHER -> <<>>

\* the writer after a statement of Add
StepDone(c, bytes) ==
  IF c.pc = Len(AddSteps)
  THEN [pc |-> 0, n |-> c.n + 1]
  ELSE [c EXCEPT !.pc = @ + 1, !.p.off = @ + Len(bytes)]

\* the values and sequence numbers the writer adds, and the snapshots the
\* readers look up
ShortValues == {<<>>, <<118>>}

WriterSeqs == {1, 2}

ReaderSnapshots == {1, 2}

\* a memtable, nothing allocated, and a writer between two calls
NoAdd == [pc |-> 0, n |-> 0]

\* mem_->Add(s, type, key, value) up to the allocation
AddBegin(s, type, key, value) ==
  /\ call.pc = 0
  /\ call.n < MaxAdds
  /\ \A e \in added : ~(e.key = key /\ e.seq = s)
  /\ type = kTypeDeletion => value = <<>>
  /\ \E r \in {Allocate(mem.arena_, EncodedLen(key, value))}, fill \in {0, 255} :
       /\ mem' = [mem EXCEPT !.arena_ = r.arena,
                              !.data_ = MemFresh(@, r.result,
                                                 EncodedLen(key, value), fill)]
       /\ call' = [pc |-> 1, n |-> call.n, s |-> s, type |-> type,
                    key |-> key, value |-> value, buf |-> r.result,
                    p |-> r.result]
  /\ UNCHANGED <<added, getCall, iter, batch, ops>>

\* the next statement of the Add under way
AddStep ==
  /\ call.pc > 0
  /\ IF AddSteps[call.pc] = "insert"
     THEN /\ mem' = [mem EXCEPT !.table_ = TableInsert(mem, call.buf)]
          /\ added' = added \cup {[seq |-> call.s, type |-> call.type,
                                    key |-> call.key, value |-> call.value,
                                    buf |-> call.buf]}
     ELSE /\ mem' = [mem EXCEPT !.data_ = MemWrite(@, call.p, StepBytes(call))]
          /\ UNCHANGED added
  /\ call' = StepDone(call, StepBytes(call))
  /\ UNCHANGED <<getCall, iter, batch, ops>>

\* a reader's mem_->Get(LookupKey(key, snapshot), &value, &s); during
\* tells whether the writer was inside Add
ReaderGet(key, snapshot) ==
  /\ getCall' = [op |-> "Get", key |-> key, snapshot |-> snapshot,
                 during |-> call.pc > 0,
                 result |-> MemTableGet(Deref(mem), LookupKey(key, snapshot))]
  /\ UNCHANGED <<mem, added, iter, batch, ops, call>>

\* the iterator at position pos of table_, 0 for none: the node it stands
\* on, and its key() and value()
ReaderAt(pos) ==
  [started |-> TRUE,
   node |-> IF pos = 0 THEN NullPtr ELSE mem.table_[pos],
   visited |-> IterRead(Deref(mem), pos)]

\* a reader's iterator: SeekToFirst(), then key() and value() if Valid()
ReaderSeekToFirst ==
  /\ ~iter.started
  /\ iter' = ReaderAt(SkipListSeekToFirst(mem.table_))
  /\ UNCHANGED <<mem, added, getCall, batch, ops, call>>

\* a reader's iterator: Next() from the node it stands on
ReaderNext ==
  /\ iter.started
  /\ iter.node # NullPtr
  /\ iter' = ReaderAt(SkipListNext(mem.table_,
                CHOOSE i \in 1..Len(mem.table_) : mem.table_[i] = iter.node))
  /\ UNCHANGED <<mem, added, getCall, batch, ops, call>>

InitConcurrent ==
  /\ mem = [table_ |-> <<>>, arena_ |-> ArenaInit, data_ |-> <<>>]
  /\ added = {}
  /\ getCall = NoCall
  /\ iter = [started |-> FALSE, node |-> NullPtr, visited |-> <<>>]
  /\ batch = [x \in {"a", "b"} |-> WriteBatchClear]
  /\ ops = [x \in {"a", "b"} |-> [recs |-> <<>>, intact |-> TRUE]]
  /\ call = NoAdd
  /\ LogUnused

NextConcurrent ==
  \/ \E s \in WriterSeqs, key \in Keys, value \in ShortValues :
       AddBegin(s, kTypeValue, key, value) /\ UNCHANGED logVars
  \/ \E s \in WriterSeqs, key \in Keys :
       AddBegin(s, kTypeDeletion, key, <<>>) /\ UNCHANGED logVars
  \/ AddStep /\ UNCHANGED logVars
  \/ \E key \in Keys, snapshot \in ReaderSnapshots :
       ReaderGet(key, snapshot) /\ UNCHANGED logVars
  \/ ReaderSeekToFirst /\ UNCHANGED logVars
  \/ ReaderNext /\ UNCHANGED logVars

SpecConcurrent == InitConcurrent /\ [][NextConcurrent]_vars

\* ------------------------------------------------------------------------
\* Varint decoders on any buffer
\* ------------------------------------------------------------------------

\* k continuation bytes c
Cont(k, c) == [i \in 1..k |-> c]

\* the buffers: up to MaxCont continuation bytes, with 7 bits of 0 or of
\* 1; no byte or a byte with the high bit clear; then nothing, another
\* continuation byte or another byte with the high bit clear
DecodeBufs ==
  {Cont(k, c) \o t \o tail :
     k \in 0..MaxCont, c \in {128, 129}, t \in {<<>>, <<0>>, <<1>>, <<7>>},
     tail \in {<<>>, <<129>>, <<1>>}}

\* a buffer, p and limit in it, and no call made
DecodeInputs ==
  {[op |-> "none", buf |-> buf, p |-> p, limit |-> limit] :
     buf \in DecodeBufs, p \in {1, 2}, limit \in 1..(MaxCont + 3)}

\* the call op(p, limit, &value) that returned q
Decoded(op, q) ==
  [op |-> op, buf |-> call.buf, p |-> call.p, limit |-> call.limit, q |-> q]

\* GetVarint32PtrFallback(p, limit, &value)
DecodeVarint32Fallback ==
  /\ call.op = "none"
  /\ call' = Decoded("GetVarint32PtrFallback",
                      GetVarint32PtrFallback(call.buf, call.p, call.limit))
  /\ UNCHANGED <<mem, added, getCall, iter, batch, ops>>

\* GetVarint32Ptr(p, limit, &value)
DecodeVarint32 ==
  /\ call.op = "none"
  /\ call' = Decoded("GetVarint32Ptr",
                      GetVarint32Ptr(call.buf, call.p, call.limit))
  /\ UNCHANGED <<mem, added, getCall, iter, batch, ops>>

\* GetVarint64Ptr(p, limit, &value)
DecodeVarint64 ==
  /\ call.op = "none"
  /\ call' = Decoded("GetVarint64Ptr",
                      GetVarint64Ptr(call.buf, call.p, call.limit))
  /\ UNCHANGED <<mem, added, getCall, iter, batch, ops>>

\* p and limit point into the buffer or just past it, p <= limit
InitDecode ==
  /\ InitMem
  /\ batch = [x \in {"a", "b"} |-> WriteBatchClear]
  /\ ops = [x \in {"a", "b"} |-> [recs |-> <<>>, intact |-> TRUE]]
  /\ call \in {c \in DecodeInputs :
                 c.p <= c.limit /\ c.limit <= Len(c.buf) + 1}
  /\ LogUnused

NextDecode ==
  \/ DecodeVarint32Fallback /\ UNCHANGED logVars
  \/ DecodeVarint32 /\ UNCHANGED logVars
  \/ DecodeVarint64 /\ UNCHANGED logVars

SpecDecode == InitDecode /\ [][NextDecode]_vars


\* ------------------------------------------------------------------------

\* the entries added for user key k with a sequence number <= snapshot
Visible(k, snapshot) == {e \in added : e.key = k /\ e.seq <= snapshot}

\* the one of a non-empty set of entries with the greatest sequence number
Newest(es) == CHOOSE e \in es : \A f \in es : f.seq <= e.seq

\* the three outcomes of a lookup
Found(v) == [ret |-> TRUE, value |-> v, s |-> "OK"]

Tombstone == [ret |-> TRUE, value |-> <<>>, s |-> "NotFound"]

Missing == [ret |-> FALSE, value |-> <<>>, s |-> "OK"]

\* C1: after any Add calls with distinct (user key, sequence) pairs,
\* Get(k, snapshot) returns Found(v) when the entry of k with the greatest
\* sequence <= snapshot is a VALUE entry of value v, the tombstone outcome
\* when it is a DELETION, and Missing when k has no entry with a sequence
\* <= snapshot. The outcome is a function of those entries alone: newer
\* entries of k and the entries of other keys do not change it.
C1_GetReturnsNewestVisible ==
  getCall.op = "Get" =>
    LET vis == Visible(getCall.key, getCall.snapshot) IN
    IF vis = {} THEN getCall.result = Missing
    ELSE IF Newest(vis).type = kTypeValue
      THEN getCall.result = Found(Newest(vis).value)
      ELSE getCall.result = Tombstone

\* C1 witness: a lookup that finds the long value, while a newer entry of
\* the key, which the snapshot does not see, and an entry of the other key
\* are in the memtable
C1_Witness ==
  /\ getCall.op = "Get"
  /\ getCall.result = Found(LongValue)
  /\ \E e \in added : e.key = getCall.key /\ e.seq > getCall.snapshot
  /\ \E e \in added : e.key # getCall.key

\* ------------------------------------------------------------------------
\* Write batches (SpecBatch)
\* ------------------------------------------------------------------------

\* C2: for a batch built by Put and Delete calls from a new or cleared
\* batch, the count of the header is the number of the calls, and Iterate
\* returns OK and calls the handler with the same operations, in the order
\* of the calls, with the same key and value bytes.
C2_IterateYieldsOps ==
  /\ \A x \in {"a", "b"} :
       ops[x].intact => Count(batch[x]) = Len(ops[x].recs)
  /\ (call.op = "Iterate" /\ ops[call.x].intact) =>
       /\ call.status = OK
       /\ call.calls = ops[call.x].recs

\* C2 witness: Iterate on a batch of a Put of the long value and a Delete
\* of the empty key
C2_Witness ==
  /\ call.op = "Iterate"
  /\ Len(call.calls) = 2
  /\ \E i \in 1..2 : call.calls[i] = HandlerPut(<<97, 98>>, LongValue)
  /\ \E i \in 1..2 : call.calls[i] = HandlerDelete(<<>>)

\* C3: after a.Append(b), the count of a is its old count plus the count
\* of b, the sequence of a is what it was (that of b is not read), b is
\* what it was, and Iterate on a yields the former records of a in order,
\* then those of b in order.
C3_AppendConcatenates ==
  call.op = "Append" =>
    LET a0 == call.before[call.dst]
        b0 == call.before[call.src]
        a1 == batch[call.dst]
    IN
    /\ Count(a1) = Count(a0) + Count(b0)
    /\ Sequence(a1) = Sequence(a0)
    /\ batch[call.src] = b0
    /\ Iterate(a1).status = OK
    /\ Iterate(a1).calls = Iterate(a0).calls \o Iterate(b0).calls

\* C3 witness: an Append of two batches of one record each, with
\* different sequence numbers
C3_Witness ==
  /\ call.op = "Append"
  /\ Count(call.before[call.dst]) = 1
  /\ Count(call.before[call.src]) = 1
  /\ Sequence(call.before[call.dst]) # Sequence(call.before[call.src])

\* ------------------------------------------------------------------------
\* Memtable iteration (SpecIter)
\* ------------------------------------------------------------------------

\* the entry Add was called with, from what the iterator returns for it
DecodeEntry(v) ==
  [seq |-> ExtractTag(v.key) \div 256, type |-> ExtractTag(v.key) % 256,
   key |-> ExtractUserKey(v.key), value |-> v.value]

\* C8: an iteration from SeekToFirst by Next visits every entry added once,
\* by increasing user key under the bytewise comparator and, for one user
\* key, by decreasing sequence number.
C8_IterationOrder ==
  LET vs == [i \in 1..Len(iter.visited) |-> DecodeEntry(iter.visited[i])] IN
  /\ \A i, j \in 1..Len(vs) :
       i < j =>
         \/ BytewiseCompare(vs[i].key, vs[j].key) < 0
         \/ vs[i].key = vs[j].key /\ vs[i].seq > vs[j].seq
  /\ (iter.started /\ iter.pos = 0) =>
       /\ Len(vs) = Cardinality(added)
       /\ {vs[i] : i \in 1..Len(vs)} = added

\* C8 witness: an iteration to the end over two entries of the key "a" and
\* an entry of the key "ab" that holds the long value
C8_Witness ==
  /\ iter.started /\ iter.pos = 0
  /\ Len(iter.visited) = 3
  /\ ExtractUserKey(iter.visited[1].key) = ExtractUserKey(iter.visited[2].key)
  /\ ExtractUserKey(iter.visited[3].key) = <<97, 98>>
  /\ iter.visited[3].value = LongValue

\* ------------------------------------------------------------------------
\* Insertion of a batch into the memtable (SpecInsert)
\* ------------------------------------------------------------------------

\* the Add call for record number i (from 1) of the records recs of a
\* batch of sequence number s
AddOf(recs, s, i) ==
  [seq |-> s + i - 1,
   type |-> IF recs[i].op = "Put" THEN kTypeValue ELSE kTypeDeletion,
   key |-> recs[i].key,
   value |-> IF recs[i].op = "Put" THEN recs[i].value ELSE <<>>]

\* the Add calls made are those of the records recs, in order, and the
\* memtable holds its former entries and the entries of these calls
AddedExactly(recs) ==
  /\ Len(call.adds) = Len(recs)
  /\ \A i \in 1..Len(recs) :
       call.adds[i] = AddOf(recs, Sequence(batch[call.x]), i)
  /\ {mem.table_[i] : i \in 1..Len(mem.table_)} =
       {call.before[i] : i \in 1..Len(call.before)}
         \cup {EntryBytes(e.seq, e.type, e.key, e.value) :
                 e \in {AddOf(recs, Sequence(batch[call.x]), i) :
                          i \in 1..Len(recs)}}
  /\ Len(mem.table_) = Len(call.before) + Len(recs)

\* C9: InsertInto of a well-formed batch of sequence number s and n records
\* returns OK and calls Add n times, in the order of the records, record
\* number i (from 0) with sequence s + i, as a VALUE with its value for a
\* Put and as a DELETION with the empty value for a Delete; the batch is
\* what it was.
C9_InsertIntoAddsInOrder ==
  (call.op = "InsertInto" /\ ops[call.x].intact) =>
    /\ call.status = OK
    /\ AddedExactly(ops[call.x].recs)
    /\ batch[call.x] = call.rep

\* C9 witness: a batch of a Put and a Delete inserted into a memtable that
\* holds older entries
C9_Witness ==
  /\ call.op = "InsertInto" /\ ops[call.x].intact
  /\ Len(call.adds) = 2
  /\ call.adds[1].type = kTypeValue /\ call.adds[1].value = LongValue
  /\ call.adds[2].type = kTypeDeletion
  /\ Len(call.before) = 2

\* C10 as the specification states it: when InsertInto returns Corruption,
\* no record of the batch has been added: the memtable holds the entries it
\* held before the call.
C10_RejectedEntirely ==
  (call.op = "InsertInto" /\ call.status.code = "Corruption") =>
    mem.table_ = call.before

\* C10 as the code has it: when InsertInto returns Corruption, the records
\* of the batch that precede the damage (all of them when only the count
\* is wrong) have been added, record number i (from 0) with sequence s + i,
\* and nothing else has; the memtable is what it was only when no record
\* precedes the damage.
C10_PrefixInserted ==
  /\ (call.op = "InsertInto" /\ ~ops[call.x].intact) =>
       /\ call.status.code = "Corruption"
       /\ AddedExactly(ops[call.x].recs)
  /\ (call.op = "InsertInto" /\ call.status.code = "Corruption") =>
       /\ ~ops[call.x].intact
       /\ (mem.table_ = call.before) <=> (ops[call.x].recs = <<>>)

\* C10 witness: InsertInto returns Corruption for an unknown tag after two
\* records, and the memtable has the two entries more
C10_Witness ==
  /\ call.op = "InsertInto"
  /\ call.status = Corruption("unknown WriteBatch tag")
  /\ Len(call.adds) = 2
  /\ Len(mem.table_) = Len(call.before) + 2

\* ------------------------------------------------------------------------
\* The log writer (SpecLog)
\* ------------------------------------------------------------------------

\* the bytes left in the block of byte number pos of the file
Room(pos) == kLogBlockSize - (pos % kLogBlockSize)

\* what a reader of the log gives up with
BadLog == [ok |-> FALSE, open |-> FALSE, records |-> <<>>]

\* slice i of dest, at byte number pos, is a header that fits the block
\* with the payload bytes it announces: the next slice has the length the
\* two length bytes give, and the checksum is that of the type and of
\* these bytes
ReadableFragment(dest, i, pos) ==
  /\ dest[i].k = "hdr"
  /\ i + 1 <= Len(dest)
  /\ dest[i + 1].k = "data"
  /\ dest[i + 1].n = dest[i].lo + 256 * dest[i].hi
  /\ dest[i].crc = MaskedCrc(dest[i].type, dest[i + 1].rec, dest[i + 1].from,
                             dest[i + 1].n)
  /\ kHeaderSize + dest[i + 1].n <= Room(pos)

RECURSIVE ReadLog(_, _, _, _, _)
\* A reader of the log, from slice i of dest at byte number pos: a tail of
\* a block shorter than a header is a trailer of zero bytes, and is
\* skipped; anything else is a fragment. A FULL fragment is a record; a
\* FIRST fragment opens a record, which MIDDLE fragments go on with and a
\* LAST fragment closes. records is the payload chunks of each record, in
\* order, and open tells whether the last of them is not closed.
ReadLog(dest, i, pos, open, records) ==
  IF i > Len(dest) THEN [ok |-> TRUE, open |-> open, records |-> records]
  ELSE IF Room(pos) < kHeaderSize THEN
    IF dest[i] = ZeroSlice(Room(pos))
      THEN ReadLog(dest, i + 1, pos + Room(pos), open, records)
      ELSE BadLog
  ELSE IF ReadableFragment(dest, i, pos) THEN
    IF dest[i].type = kFullType /\ ~open THEN
      ReadLog(dest, i + 2, pos + kHeaderSize + dest[i + 1].n, FALSE,
              Append(records, <<dest[i + 1]>>))
    ELSE IF dest[i].type = kFirstType /\ ~open THEN
      ReadLog(dest, i + 2, pos + kHeaderSize + dest[i + 1].n, TRUE,
              Append(records, <<dest[i + 1]>>))
    ELSE IF dest[i].type \in {kMiddleType, kLastType} /\ open THEN
      ReadLog(dest, i + 2, pos + kHeaderSize + dest[i + 1].n,
              dest[i].type = kMiddleType,
              [records EXCEPT ![Len(records)] = Append(@, dest[i + 1])])
    ELSE BadLog
  ELSE BadLog

\* the reader on the bytes the writer appended: those after the bytes the
\* file held when the writer was made
ReadAppended(dest) ==
  IF dest # <<>> /\ dest[1].k = "old"
    THEN ReadLog(dest, 2, dest[1].n, FALSE, <<>>)
    ELSE ReadLog(dest, 1, 0, FALSE, <<>>)

\* the chunks, put end to end, are the size bytes of payload number id
IsPayload(chunks, id, size) ==
  /\ \A i \in 1..Len(chunks) : chunks[i].rec = id
  /\ chunks[1].from = 0
  /\ \A i \in 1..(Len(chunks) - 1) :
       chunks[i + 1].from = chunks[i].from + chunks[i].n
  /\ chunks[Len(chunks)].from + chunks[Len(chunks)].n = size

\* C4: after any AddRecord calls on a writer whose sink never fails, a
\* reader of the sink's bytes as blocks of kLogBlockSize bytes, which skips
\* the trailers and puts together each FULL fragment and each group from a
\* FIRST to a LAST fragment, gets the payloads of the calls, byte for byte
\* and in the order of the calls.
C4_LogReadsBack ==
  (rec.pc = "idle" /\ ~rec.sinkFailed) =>
    /\ ReadAppended(log.dest_).ok
    /\ ~ReadAppended(log.dest_).open
    /\ Len(ReadAppended(log.dest_).records) = Len(rec.done)
    /\ \A k \in 1..Len(rec.done) :
         IsPayload(ReadAppended(log.dest_).records[k], k, rec.done[k].size)

\* C4 witness: a writer on a file that ends 6 bytes before a block does,
\* after a trailer, a record that fills a block to its last byte and a
\* record of 70000 bytes, with a sink that did not fail
C4_Witness ==
  /\ rec.pc = "idle" /\ ~rec.sinkFailed
  /\ Len(rec.done) = 2
  /\ rec.done[1].size = 32761
  /\ rec.done[2].size = 70000
  /\ log.dest_[1] = OldSlice(65530)
  /\ \E i \in 1..Len(log.dest_) : log.dest_[i].k = "zero"

\* the record a header or payload slice of the sink belongs to
RecordOf(sl) == IF sl.k = "hdr" THEN sl.crc.rec ELSE sl.rec

\* C5: the types of the fragments one AddRecord call that returns OK emits
\* are, in order, FULL alone or FIRST, any number of MIDDLE, LAST, for any
\* payload and any block_offset_ at the call: there is a fragment at least.
\* While the call runs they are FIRST and any number of MIDDLE. The
\* fragments of a record come in the sink after those of the records
\* before it.
C5_FragmentTypes ==
  LET n == Len(rec.frags) IN
  /\ (rec.pc = "idle" /\ rec.id > 0 /\ rec.s = OK) =>
       /\ n >= 1
       /\ \/ n = 1 /\ rec.frags[1].type = kFullType
          \/ /\ n >= 2
             /\ rec.frags[1].type = kFirstType
             /\ \A i \in 2..(n - 1) : rec.frags[i].type = kMiddleType
             /\ rec.frags[n].type = kLastType
  /\ (rec.pc = "loop" /\ n >= 1) =>
       /\ rec.frags[1].type = kFirstType
       /\ \A i \in 2..n : rec.frags[i].type = kMiddleType
  /\ \A i, j \in 1..Len(log.dest_) :
       (i < j /\ log.dest_[i].k \in {"hdr", "data"}
              /\ log.dest_[j].k \in {"hdr", "data"}) =>
         RecordOf(log.dest_[i]) <= RecordOf(log.dest_[j])

\* C5 witness: the second AddRecord call of a writer returned OK after a
\* FIRST, a MIDDLE and a LAST fragment, from a block_offset_ that is not 0
C5_Witness ==
  /\ rec.pc = "idle" /\ rec.s = OK /\ rec.id = 2
  /\ Len(rec.frags) = 3
  /\ rec.frags[2].type = kMiddleType
  /\ rec.frags[1].offset > 0

\* C6: every fragment AddRecord emits lies in one block: at each call of
\* EmitPhysicalRecord, block_offset_ + kHeaderSize + length <= kBlockSize
\* and length <= 0xffff (its two assertions hold), for any payload and any
\* block_offset_ at the call, also of a writer made on a file that is not
\* empty.
C6_FragmentInsideBlock ==
  \A i \in 1..Len(rec.frags) :
    /\ rec.frags[i].length >= 0
    /\ rec.frags[i].length <= 65535
    /\ rec.frags[i].offset + kHeaderSize + rec.frags[i].length <= kLogBlockSize

\* C6 witness: a writer made on a file that is not empty emitted, from the
\* middle of a block, a fragment that ends with the block
C6_Witness ==
  /\ log.dest_ # <<>> /\ log.dest_[1].k = "old"
  /\ \E i \in 1..Len(rec.frags) :
       /\ rec.frags[i].offset > 0
       /\ rec.frags[i].offset + kHeaderSize + rec.frags[i].length = kLogBlockSize

\* the number of bytes of the sink before slice i
SinkPos(dest, i) == SinkSize(SubSeq(dest, 1, i - 1))

\* C7: when a pass of AddRecord finds fewer than kHeaderSize bytes left in
\* the block, it appends these leftover bytes as zero bytes to the sink and
\* sets block_offset_ to 0 before it emits the fragment; otherwise it
\* appends none. No header is emitted with fewer than kHeaderSize bytes
\* left in the block. In the bytes of a sink that never failed, a trailer
\* is 1 to 6 zero bytes that end with a block and that a header follows,
\* and a header has kHeaderSize bytes or more left in its block.
C7_TrailerPadding ==
  /\ \A i \in 1..Len(rec.frags) :
       /\ rec.frags[i].leftover >= 0
       /\ rec.frags[i].leftover < kHeaderSize =>
            (rec.frags[i].pad = rec.frags[i].leftover /\ rec.frags[i].offset = 0)
       /\ rec.frags[i].leftover >= kHeaderSize =>
            /\ rec.frags[i].pad = 0
            /\ rec.frags[i].offset = kLogBlockSize - rec.frags[i].leftover
       /\ kLogBlockSize - rec.frags[i].offset >= kHeaderSize
       /\ ~rec.sinkFailed => rec.frags[i].pos % kLogBlockSize = rec.frags[i].offset
  /\ ~rec.sinkFailed =>
       \A i \in 1..Len(log.dest_) :
         /\ log.dest_[i].k = "zero" =>
              /\ log.dest_[i].n \in 1..(kHeaderSize - 1)
              /\ Room(SinkPos(log.dest_, i)) = log.dest_[i].n
              /\ i < Len(log.dest_) => log.dest_[i + 1].k = "hdr"
         /\ log.dest_[i].k = "hdr" =>
              Room(SinkPos(log.dest_, i)) >= kHeaderSize

\* C7 witness: a pass found 3 bytes left in the block, and the sink, which
\* never failed, holds the 3 zero bytes and then the header
C7_Witness ==
  /\ ~rec.sinkFailed
  /\ \E j \in 1..Len(rec.frags) :
       /\ rec.frags[j].leftover = 3
       /\ rec.frags[j].pad = 3
       /\ rec.frags[j].offset = 0
  /\ \E i \in 1..(Len(log.dest_) - 1) :
       log.dest_[i] = ZeroSlice(3) /\ log.dest_[i + 1].k = "hdr"

\* ------------------------------------------------------------------------
\* Iterate on any contents (SpecParse)
\* ------------------------------------------------------------------------

\* the number of bytes of the varint32 at byte p of s: up to 5 bytes, all
\* but the last with the high bit; 0 when s holds no such bytes at p
VarintSizeAt(s, p) ==
  LET ends == {k \in 1..5 : /\ p + k - 1 <= Len(s)
                            /\ s[p + k - 1] < 128
                            /\ \A j \in 1..(k - 1) : s[p + j - 1] >= 128}
  IN IF ends = {} THEN 0 ELSE CHOOSE k \in ends : TRUE

RECURSIVE VarintValueAt(_, _, _)
\* the number the k bytes of the varint at byte p of s stand for: groups
\* of 7 bits, the least significant first
VarintValueAt(s, p, k) ==
  IF k = 0 THEN 0 ELSE (s[p] % 128) + 128 * VarintValueAt(s, p + 1, k - 1)

\* the byte after the length-prefixed slice at byte p of s; 0 when the
\* length or the bytes of the slice are cut short
SliceEndAt(s, p) ==
  LET k == VarintSizeAt(s, p) IN
  IF k = 0 THEN 0
  ELSE IF p + k + VarintValueAt(s, p, k) - 1 <= Len(s)
    THEN p + k + VarintValueAt(s, p, k)
    ELSE 0

\* the byte after the record at byte p of s: a VALUE tag and two slices,
\* or a DELETION tag and one slice; 0 when there is no such record
RecordEndAt(s, p) ==
  IF s[p] = kTypeValue THEN
    IF SliceEndAt(s, p + 1) = 0 THEN 0
    ELSE SliceEndAt(s, SliceEndAt(s, p + 1))
  ELSE IF s[p] = kTypeDeletion THEN SliceEndAt(s, p + 1)
  ELSE 0

RECURSIVE RecordCountFrom(_, _)
\* the number of records s is made of from byte p on; -1 when the bytes
\* from p on are not records end to end
RecordCountFrom(s, p) ==
  IF p > Len(s) THEN 0
  ELSE IF RecordEndAt(s, p) = 0 THEN -1
  ELSE IF RecordCountFrom(s, RecordEndAt(s, p)) = -1 THEN -1
  ELSE 1 + RecordCountFrom(s, RecordEndAt(s, p))

\* rep is a header and records end to end, as many as the header counts
WellFormedBatch(rep) ==
  /\ Len(rep) >= kHeader
  /\ RecordCountFrom(RemovePrefix(rep, kHeader), 1) = Count(rep)

\* C11: Iterate returns OK if and only if rep_ has kHeader bytes or more,
\* the bytes after the header are records end to end, each a VALUE tag
\* with two whole length-prefixed slices or a DELETION tag with one, and
\* their number is the count of the header; otherwise it returns
\* Corruption.
C11_IterateOkIffWellFormed ==
  call.op = "Iterate" =>
    /\ (call.status = OK) <=> WellFormedBatch(batch[call.x])
    /\ call.status # OK => call.status.code = "Corruption"

\* C11 witness: Iterate returns OK on contents that no Put or Delete
\* writes: a Delete with a key length of 5, whose key is the bytes of the
\* Put that follows
C11_Witness ==
  /\ call.op = "Iterate"
  /\ call.status = OK
  /\ RemovePrefix(batch[call.x], kHeader) = <<0, 5, 97, 1, 1, 97, 0>>

\* ------------------------------------------------------------------------
\* The log writer and a sink that fails (SpecLog)
\* ------------------------------------------------------------------------

\* no pass of the call emitted a fragment after the sink refused the
\* trailer of the pass
TrailerErrorAborts ==
  \A i \in 1..Len(rec.frags) : rec.frags[i].padOk

\* a pass in which the sink refused the header, the payload or the flush
\* is the last of the call, and the call does not return OK
EmitErrorAborts ==
  \A i \in 1..Len(rec.frags) :
    rec.frags[i].fail # "none" =>
      (i = Len(rec.frags) /\ rec.pc = "idle" /\ rec.s # OK)

\* C12 as the specification states it: an error of any sink call of
\* AddRecord (the Append of the trailer, of the header, of the payload, or
\* the Flush) ends the loop at once and is returned: no fragment is emitted
\* after the call that failed, and AddRecord does not return OK.
C12_SinkErrorAborts == TrailerErrorAborts /\ EmitErrorAborts

\* the number of bytes the sink holds, modulo the size of a block
SinkOffset(dest) == SinkSize(dest) % kLogBlockSize

\* C13 as the specification states it: after an AddRecord call in which an
\* Append or the Flush failed, block_offset_ is, modulo the size of a
\* block, the number of bytes the sink accepted.
C13_OffsetFollowsSink ==
  (rec.pc = "idle" /\ rec.s # OK) =>
    log.block_offset_ % kLogBlockSize = SinkOffset(log.dest_)

\* ------------------------------------------------------------------------
\* block_offset_ and the lengths of the fragments (SpecLog)
\* ------------------------------------------------------------------------

\* C18 as the specification states it: between AddRecord calls,
\* block_offset_ is in 0 .. kBlockSize - 1.
C18_OffsetBelowBlockSize ==
  rec.pc = "idle" => log.block_offset_ \in 0..(kLogBlockSize - 1)

\* C18 as the code has it: block_offset_ is in 0 .. kBlockSize, between
\* AddRecord calls and within them, for any calls and any length of the
\* file the writer is made on; it is kBlockSize after a fragment that ends
\* with its block.
C18_OffsetUpToBlockSize ==
  /\ log.block_offset_ \in 0..kLogBlockSize
  /\ (log.block_offset_ = kLogBlockSize /\ rec.frags # <<>>) =>
       rec.frags[Len(rec.frags)].offset + kHeaderSize
         + rec.frags[Len(rec.frags)].length = kLogBlockSize

\* C18 witness: after an AddRecord call that returned OK, block_offset_ is
\* kBlockSize
C18_Witness ==
  /\ rec.pc = "idle" /\ rec.id > 0 /\ rec.s = OK
  /\ log.block_offset_ = kLogBlockSize

RECURSIVE SumLengths(_, _)
\* the bytes of the payload the first n fragments of the call hold
SumLengths(frags, n) ==
  IF n = 0 THEN 0 ELSE SumLengths(frags, n - 1) + frags[n].length

\* the smaller of two numbers
Min(a, b) == IF a <= b THEN a ELSE b

\* C20: every fragment of an AddRecord call holds as many bytes as are
\* left of the payload, or as fit the block after its header if that is
\* fewer: min(left, kBlockSize - block_offset_ - kHeaderSize). A FIRST or
\* MIDDLE fragment therefore ends with its block. A payload of 40000 bytes
\* on an empty log gives a FIRST fragment of 32761 bytes and a LAST
\* fragment of 7239 bytes.
C20_FragmentLengths ==
  /\ \A i \in 1..Len(rec.frags) :
       /\ rec.frags[i].length =
            Min(rec.size - SumLengths(rec.frags, i - 1),
                kLogBlockSize - rec.frags[i].offset - kHeaderSize)
       /\ rec.frags[i].type \in {kFirstType, kMiddleType} =>
            rec.frags[i].offset + kHeaderSize + rec.frags[i].length
              = kLogBlockSize
  /\ (rec.pc = "idle" /\ rec.s = OK /\ rec.size = 40000
         /\ rec.frags # <<>> /\ rec.frags[1].pos = 0
         /\ rec.frags[1].offset = 0) =>
       /\ Len(rec.frags) = 2
       /\ rec.frags[1].type = kFirstType /\ rec.frags[1].length = 32761
       /\ rec.frags[2].type = kLastType /\ rec.frags[2].length = 7239
       /\ rec.frags[2].pos = kLogBlockSize

\* C20 witness: the AddRecord call of a payload of 40000 bytes on an empty
\* log returned OK
C20_Witness ==
  /\ rec.pc = "idle" /\ rec.s = OK /\ rec.size = 40000
  /\ Len(rec.frags) = 2
  /\ rec.frags[1].pos = 0
  /\ rec.frags[1].offset = 0
  /\ ~rec.sinkFailed

\* ------------------------------------------------------------------------
\* The arena (SpecArena)
\* ------------------------------------------------------------------------

\* C15: every pointer AllocateAligned returns is a multiple of
\* max(pointer size, 8), block starts being so aligned: the assertion at
\* the end of AllocateAligned holds on the path through the current block
\* and on both fallback paths.
C15_AlignedResult ==
  call.op = "AllocateAligned" => AddressMod(call.result) = 0

\* an aligned allocation that skipped bytes of the current block, made
\* after one that left an unaligned current block for a block of its own
C15_Witness ==
  /\ call.op = "AllocateAligned"
  /\ AddressMod(call.before.alloc_ptr_) # 0
  /\ call.result.blk = call.before.alloc_ptr_.blk
  /\ call.result.off > call.before.alloc_ptr_.off
  /\ call.prev.op = "AllocateAligned"
  /\ AddressMod(call.prev.before.alloc_ptr_) # 0
  /\ call.prev.result.blk > Len(call.prev.before.blocks_)

RECURSIVE SumBlocks(_)
SumBlocks(blocks) ==
  IF blocks = <<>> THEN 0
  ELSE Head(blocks) + PointerSize + SumBlocks(Tail(blocks))

\* C16: memory_usage_ is the sum over the allocated blocks of the block's
\* size plus the size of a pointer; a call changes it only by allocating a
\* block, and never lowers it.
C16_MemoryUsage ==
  /\ mem.arena_.memory_usage_ = SumBlocks(mem.arena_.blocks_)
  /\ call.op # "none" =>
       /\ mem.arena_.memory_usage_ >= call.before.memory_usage_
       /\ mem.arena_.memory_usage_ # call.before.memory_usage_ =>
            Len(mem.arena_.blocks_) = Len(call.before.blocks_) + 1

\* blocks of both kinds are allocated, and the last call needed none
C16_Witness ==
  /\ call.op # "none"
  /\ Len(mem.arena_.blocks_) = 2
  /\ \E i \in 1..2 : mem.arena_.blocks_[i] # kBlockSize
  /\ \E i \in 1..2 : mem.arena_.blocks_[i] = kBlockSize
  /\ mem.arena_.blocks_ = call.before.blocks_
  /\ mem.arena_.memory_usage_ = call.before.memory_usage_

\* Allocate(bytes) with more bytes than the current block has left and
\* more than a quarter of a block
BigFallback(c) ==
  /\ c.op = "Allocate"
  /\ c.bytes > c.before.alloc_bytes_remaining_
  /\ c.bytes > 1024

\* C19: Allocate(n) with n > alloc_bytes_remaining_ and n > 1024 returns
\* the start of a new block of exactly n bytes and leaves alloc_ptr_ and
\* alloc_bytes_remaining_ alone; an Allocate(m) right after it, with m at
\* most the old remainder, is served from the old current block without a
\* new block.
C19_DedicatedBlock ==
  /\ BigFallback(call) =>
       /\ call.result = [blk |-> Len(call.before.blocks_) + 1, off |-> 0]
       /\ mem.arena_.blocks_ = Append(call.before.blocks_, call.bytes)
       /\ mem.arena_.alloc_ptr_ = call.before.alloc_ptr_
       /\ mem.arena_.alloc_bytes_remaining_ =
            call.before.alloc_bytes_remaining_
  /\ (/\ call.op = "Allocate"
      /\ BigFallback(call.prev)
      /\ call.bytes <= call.prev.before.alloc_bytes_remaining_) =>
       /\ call.result = call.prev.before.alloc_ptr_
       /\ mem.arena_.blocks_ = call.before.blocks_

\* a small allocation from the old current block, after a block of its
\* own was given to a request larger than the old block's remainder
C19_Witness ==
  /\ call.op = "Allocate"
  /\ BigFallback(call.prev)
  /\ call.prev.bytes < kBlockSize
  /\ call.bytes <= call.prev.before.alloc_bytes_remaining_
  /\ call.result.blk < Len(mem.arena_.blocks_)

\* ------------------------------------------------------------------------
\* Varints (SpecVarint)
\* ------------------------------------------------------------------------

\* the bytes PutVarint32 appended
Written(c) == RemovePrefix(c.dst, Len(c.before))

\* the bytes GetVarint32 took
Taken(c) == Prefix(c.before, Len(c.before) - Len(c.dst))

\* e holds the 7-bit groups of v, the least significant first, with the
\* high bit set on every byte but the last
GroupsOf(e, v) ==
  \A i \in 1..Len(e) :
    /\ e[i] % 128 = (v \div 128^(i - 1)) % 128
    /\ e[i] >= 128 <=> i < Len(e)

\* C17: PutVarint32 writes VarintLength(v) bytes, between 1 and 5, the
\* 7-bit groups of v from the least significant with the high bit set on
\* all but the last; GetVarint32 on a string that starts with them
\* succeeds, gives v back and takes exactly those bytes.
C17_Varint32RoundTrip ==
  /\ call.op = "PutVarint32" =>
       /\ call.dst = call.before \o Written(call)
       /\ Len(Written(call)) = VarintLength(call.v)
       /\ Len(Written(call)) \in 1..5
       /\ GroupsOf(Written(call), call.v)
  /\ (call.op = "GetVarint32" /\ call.expect # <<>>) =>
       /\ call.ok
       /\ call.value = Head(call.expect)
       /\ Taken(call) = EncodeVarint32(Head(call.expect))
       /\ call.before = Taken(call) \o call.dst

\* a varint of five bytes taken from the string, another one left in it
C17_Witness ==
  /\ call.op = "GetVarint32"
  /\ call.ok
  /\ call.value = 2147483647
  /\ Len(Taken(call)) = 5
  /\ call.dst # <<>>

\* ------------------------------------------------------------------------
\* A writer and readers (SpecConcurrent)
\* ------------------------------------------------------------------------

\* the bytes of the entry e in arena memory
EntryAt(e) == Prefix(MemBytes(mem.data_, e.buf), EncodedLen(e.key, e.value))

\* the entry that Iterator::key() and value() return for e
ReadOf(e) ==
  [key |-> e.key \o EncodeFixed64(PackSequenceAndType(e.seq, e.type)),
   value |-> e.value]

\* C14: with one writer in Add and readers in Get or iterating, every
\* pointer in the ordered set is one that Add inserted after writing the
\* whole entry (key length, user key, tag, value length, value); the bytes
\* of an inserted entry stay as written whatever runs later; and what a
\* reader gets from an entry is what that Add was given.
C14_ReadersSeeCompleteEntries ==
  /\ \A i \in 1..Len(mem.table_) : \E e \in added : e.buf = mem.table_[i]
  /\ \A e \in added : EntryAt(e) = EntryBytes(e.seq, e.type, e.key, e.value)
  /\ (getCall.op = "Get" /\ getCall.result.ret) =>
       \E e \in added :
         /\ e.key = getCall.key
         /\ e.seq <= getCall.snapshot
         /\ IF getCall.result.s = "OK"
            THEN e.type = kTypeValue /\ e.value = getCall.result.value
            ELSE e.type = kTypeDeletion
  /\ \A k \in 1..Len(iter.visited) :
       \E e \in added : iter.visited[k] = ReadOf(e)

\* a Get that ran while the writer was writing the second entry and found
\* the value of the first, the second since inserted before it
C14_Witness ==
  /\ getCall.op = "Get"
  /\ getCall.during
  /\ getCall.result.ret
  /\ getCall.result.value = <<118>>
  /\ Len(mem.table_) = 2
  /\ \E e \in added : e.buf = mem.table_[2] /\ e.value = <<118>>
                        /\ e.buf.off = 0

\* ------------------------------------------------------------------------
\* The arena's regions (SpecArena)
\* ------------------------------------------------------------------------

\* the regions r and q share a byte
Overlap(r, q) ==
  /\ r.ptr.blk = q.ptr.blk
  /\ r.ptr.off < q.ptr.off + q.n
  /\ q.ptr.off < r.ptr.off + r.n

\* the region r lies inside one block of the arena a
InsideBlock(a, r) ==
  /\ r.ptr.blk \in 1..Len(a.blocks_)
  /\ r.ptr.off >= 0
  /\ r.ptr.off + r.n <= a.blocks_[r.ptr.blk]

\* alloc_ptr_ .. alloc_ptr_ + alloc_bytes_remaining_ is the end of the
\* current block, and no region returned reaches into it
UnusedTail(a, regions) ==
  IF a.alloc_ptr_ = NullPtr THEN a.alloc_bytes_remaining_ = 0
  ELSE
    /\ a.alloc_ptr_.blk \in 1..Len(a.blocks_)
    /\ a.alloc_bytes_remaining_ >= 0
    /\ a.alloc_ptr_.off + a.alloc_bytes_remaining_ =
         a.blocks_[a.alloc_ptr_.blk]
    /\ \A i \in 1..Len(regions) :
         regions[i].ptr.blk = a.alloc_ptr_.blk =>
           regions[i].ptr.off + regions[i].n <= a.alloc_ptr_.off

\* C22: over any sequence of Allocate(n) and AllocateAligned(n), n > 0,
\* the regions returned are pairwise disjoint, each inside one block of
\* the arena, alloc_ptr_ .. alloc_ptr_ + alloc_bytes_remaining_ is the
\* unused tail of the current block, and no block is dropped or replaced.
C22_RegionsDisjoint ==
  /\ \A i, j \in 1..Len(call.regions) :
       i < j => ~Overlap(call.regions[i], call.regions[j])
  /\ \A i \in 1..Len(call.regions) : InsideBlock(mem.arena_, call.regions[i])
  /\ UnusedTail(mem.arena_, call.regions)
  /\ call.op # "none" =>
       call.before.blocks_ = Prefix(mem.arena_.blocks_, Len(call.before.blocks_))

\* three regions: two in the current block, the later one behind bytes
\* skipped for alignment, and one in a block of its own
C22_Witness ==
  /\ Len(call.regions) = 3
  /\ call.op = "AllocateAligned"
  /\ call.result.blk = call.before.alloc_ptr_.blk
  /\ call.result.off > call.before.alloc_ptr_.off
  /\ call.regions[1].ptr.blk = call.result.blk
  /\ call.regions[2].ptr.blk # call.result.blk
  /\ call.regions[2].n > kBlockSize

\* ------------------------------------------------------------------------
\* The block grid (SpecLog)
\* ------------------------------------------------------------------------

\* C23: for a writer made with the length of its file, as long as no call
\* of the sink has failed, block_offset_ is congruent modulo kBlockSize to
\* the number of bytes in the sink after every AddRecord, and the header
\* of every fragment lies at its block_offset_ on the file's grid of
\* blocks, whole inside one block.
C23_OffsetOnGrid ==
  ~rec.sinkFailed =>
    /\ log.block_offset_ % kLogBlockSize = SinkSize(log.dest_) % kLogBlockSize
    /\ \A i \in 1..Len(rec.frags) :
         /\ rec.frags[i].pos % kLogBlockSize = rec.frags[i].offset
         /\ rec.frags[i].offset + kHeaderSize <= kLogBlockSize

\* two records added without a failure to a file that ended inside its
\* second block, the last one after a trailer and over three blocks
C23_Witness ==
  /\ rec.pc = "idle"
  /\ ~rec.sinkFailed
  /\ Len(rec.done) = 2
  /\ Len(rec.frags) = 3
  /\ rec.frags[1].pad > 0
  /\ rec.frags[1].pos = 2 * kLogBlockSize
  /\ log.block_offset_ > 0

\* ------------------------------------------------------------------------
\* Termination of AddRecord (SpecLogLive)
\* ------------------------------------------------------------------------

\* every fragment after the first carries a byte of the payload
LaterFragmentsCarry ==
  \A i \in 2..Len(rec.frags) : rec.frags[i].length >= 1

\* the passes of a call are at most two more than the blocks its payload
\* fills
PassesBounded ==
  Len(rec.frags) <= rec.size \div (kLogBlockSize - kHeaderSize) + 2

\* C24: on a sink that neither blocks nor fails, AddRecord returns for
\* every payload length and every block_offset_ it starts at, also with
\* exactly kHeaderSize bytes left in the block: every fragment after the
\* first carries at least one byte of the payload, so a record has at most
\* one fragment of length zero.
C24_AddRecordTerminates ==
  /\ [](LaterFragmentsCarry /\ PassesBounded)
  /\ (rec.pc = "loop") ~> (rec.pc = "idle" /\ rec.s = OK)

\* a record of one byte added with 7 bytes left in the block: an empty
\* first fragment, then the byte in the next block
C24_Witness ==
  /\ rec.pc = "idle"
  /\ rec.size = 1
  /\ Len(rec.frags) = 2
  /\ rec.frags[1].leftover = kHeaderSize
  /\ rec.frags[1].length = 0
  /\ rec.frags[2].length = 1
  /\ rec.frags[2].offset = 0

\* ------------------------------------------------------------------------
\* Varint decoders (SpecDecode)
\* ------------------------------------------------------------------------

\* the bytes with a clear high bit among the first max bytes from p that
\* lie before limit
Terminators(buf, p, limit, max) ==
  {i \in p..Min(limit - 1, p + max - 1) : buf[i] < 128}

\* the pointer just past the first of them, nullptr if there is none
PastTerminator(buf, p, limit, max) ==
  IF Terminators(buf, p, limit, max) = {} THEN 0
  ELSE 1 + CHOOSE i \in Terminators(buf, p, limit, max) :
             \A j \in Terminators(buf, p, limit, max) : i <= j

\* C21: the 32-bit (64-bit) decoder returns nullptr exactly when none of
\* the first 5 (10) bytes before limit has a clear high bit, as on an
\* exhausted buffer or with a continuation bit in the 5th (10th) byte,
\* and otherwise the pointer just past the first such byte; bytes at or
\* beyond limit, whatever they are, have no part in it.
C21_DecodeFailsIffNoTerminator ==
  /\ call.op \in {"GetVarint32PtrFallback", "GetVarint32Ptr"} =>
       call.q.p = PastTerminator(call.buf, call.p, call.limit, 5)
  /\ call.op = "GetVarint64Ptr" =>
       call.q.p = PastTerminator(call.buf, call.p, call.limit, 10)

\* the 64-bit decoder fails on ten continuation bytes, a byte with a
\* clear high bit following them before limit
C21_Witness ==
  /\ call.op = "GetVarint64Ptr"
  /\ call.q.p = 0
  /\ call.limit > call.p + 10
  /\ call.buf[call.p + 10] < 128
  /\ call.buf[call.p + 9] >= 128

====
